---- MODULE Spec2Model ----
(***************************************************************************)
(* The blackboard plugin of rtime (blackboard/src/lib.rs) together with    *)
(* the capability table it uses as its listener table                      *)
(* (interfaces/src/capabilities.rs).                                       *)
(*                                                                         *)
(* Every exported function takes the process-wide mutex for its whole      *)
(* body, so each call is one atomic step.  Callbacks are foreign code; a   *)
(* call to one is recorded, in order, in the observation of the step.      *)
(*                                                                         *)
(* Representation.  C strings (keys, components, listener names) are TLA+  *)
(* strings.  A stored value is a record [kind, v]: kind is the Rust type   *)
(* behind the Box<dyn Any> and v the value as a sequence of cells, the     *)
(* bytes of a String or the single cell of an i32, f32, f64 or bool.       *)
(* Pointers (callbacks, user_data) are integers, 0 the null pointer.       *)
(***************************************************************************)
EXTENDS Integers, Sequences, FiniteSets, TLC

VARIABLES
    scenario,   \* which bounded universe of inputs the callers draw from
    singleton,  \* SINGLETON: the Option<BlackBoardData> behind the mutex
    poisoned,   \* the mutex is poisoned: a thread panicked holding it
    logger,     \* the plugin's global logger has been installed
    subs,       \* history: the live subscriptions as made, in registration order
    last,       \* observation of the last call: arguments, outcome, callbacks
    pc,         \* threads: where each thread is inside the call it is making
    calling,    \* threads: the call each thread is making
    holder,     \* threads: the thread that holds the mutex, if any
    events,     \* threads: history of stores, callback calls and returns
    config,     \* loader: the LibraryConfig list of the runtime's config file
    libraries,  \* loader: what load_libraries returned, in load order
    inner,      \* loader: Components::inner, the component list
    main,       \* loader: where the runtime is between startup and shutdown
    visited,    \* loader: components start_services has walked past
    lhist,      \* loader: history of log lines, wirings and lifecycle calls
    table,      \* capability table under test
    probe,      \* capability table under test: observation of the last call
    SERVER_STATE, \* webinterface: the Option<ServerState> behind its mutex
    wlogger,    \* webinterface: the plugin's global logger has been installed
    wlast       \* webinterface: observation of the last call

tvars == <<pc, calling, holder, events>>

\* the webinterface
wvars == <<SERVER_STATE, wlogger, wlast>>

\* the loader, the capability table under test and the webinterface
lvars == <<config, libraries, inner, main, visited, lhist, table, probe, wvars>>

vars == <<scenario, singleton, poisoned, logger, subs, last, pc, calling, holder, events,
          config, libraries, inner, main, visited, lhist, table, probe,
          SERVER_STATE, wlogger, wlast>>

(***************************************************************************)
(* Bounds and program constants                                            *)
(***************************************************************************)
\* In the scenarios with several subscribers the callers stop subscribing
\* once the listener table holds this many capabilities.
MaxListenerAdds == 3

\* Length of the name buffer of a capability (caps.h, through bindgen).
CAPABILITY_FUNCTION_NAME_LEN == 64

\* Capacity of a capability table.
CAPABILITY_TABLE_LEN == 20

NULL == 0

\* Bits of the significand of an f32.
F32_MANTISSA_DIGITS == 24

\* The cell that stands for the float +infinity, above every finite float of
\* the model.
Infinity == 2 ^ (F32_MANTISSA_DIGITS + 2)

Kinds == {"String", "Int", "Float", "Double", "Bool"}

(***************************************************************************)
(* Input universes                                                         *)
(***************************************************************************)
Scenarios == {"typed", "observers", "churn", "long"}

ScKeys(sc) == IF sc \in {"churn", "long"} THEN {"a"} ELSE {"a", "a_b"}

\* A component name of 62 bytes: with the key "a" its listener name,
\* key_component, has 64 bytes.
Component62 == "abcdefghijklmnopqrstuvwxyzabcdefghijklmnopqrstuvwxyzabcdefghij"

\* The (key, component) pairs that subscribe and unsubscribe.  Two of them
\* share a key, and two of them share the text key_component; in the
\* universe of long names one has a listener name of 64 bytes.
ScPairs(sc) ==
    IF sc = "observers"
    THEN {<<"a", "c">>, <<"a", "b_c">>, <<"a_b", "c">>}
    ELSE IF sc = "long"
    THEN {<<"a", "c">>, <<"a", Component62>>}
    ELSE {<<k, "c">> : k \in ScKeys(sc)}

\* The (callback, user_data) pairs subscribers pass: a subscriber with a
\* context, one without, and a null callback.
ScSubscribers(sc) ==
    {[callback |-> NULL, user_data |-> NULL]} \cup
    CASE sc = "observers" -> {[callback |-> 1, user_data |-> 7],
                              [callback |-> 2, user_data |-> NULL]}
      [] sc = "churn"     -> {[callback |-> 1, user_data |-> NULL]}
      [] sc = "long"      -> {[callback |-> 1, user_data |-> 7]}
      [] OTHER            -> {}

\* In the universe of many subscribers the callers publish integers,
\* subscribe, unsubscribe, reset, start and stop; the reads and set_string
\* are called in the other universes.
Queries(sc) == sc # "observers"

\* Callers pass null pointers in the smallest universe only.
ScKeyArgs(sc) == ScKeys(sc) \cup (IF sc = "churn" THEN {"<null>"} ELSE {})

ScValues(sc, kind) ==
    IF sc = "typed"
    THEN CASE kind = "String" -> {<< >>, <<104, 105>>}
           [] kind = "Int"    -> {<<1>>, <<42>>}
           [] kind = "Float"  -> {<<1>>, <<Infinity>>}
           [] kind = "Double" -> {<<1>>}
           [] kind = "Bool"   -> {<<0>>, <<1>>}
    ELSE IF kind = "Int" THEN {<<7>>} ELSE {}

\* what a caller's output location may hold before the call
Fills == {170}

(***************************************************************************)
(* Finite maps (HashMap)                                                   *)
(***************************************************************************)
EmptyMap == [x \in {} |-> 0]

Put(m, k, v) == [x \in (DOMAIN m) \cup {k} |-> IF x = k THEN v ELSE m[x]]

Remove(m, k) == [x \in (DOMAIN m) \ {k} |-> m[x]]

(***************************************************************************)
(* interfaces::capabilities                                                *)
(***************************************************************************)
\* Capability::new: the name is cut to the buffer, leaving room for a NUL.
CapabilityNew(name, function) ==
    LET name_len == IF Len(name) + 1 > CAPABILITY_FUNCTION_NAME_LEN
                    THEN CAPABILITY_FUNCTION_NAME_LEN - 1
                    ELSE Len(name)
    IN  [name |-> SubSeq(name, 1, name_len), function |-> function]

\* Capability::name: the bytes of the buffer before its first NUL
CapabilityName(cap) == cap.name

\* Capability::get: the function pointer, an Err when it is null
CapabilityGet(cap) ==
    IF cap.function = NULL THEN [ok |-> FALSE, function |-> NULL]
    ELSE [ok |-> TRUE, function |-> cap.function]

\* Capabilities::new: no capability; the table is the sequence of its first
\* n_capabilities slots.
CapabilitiesNew == << >>

\* Mutant: the table takes a capability whatever its count.
CapabilitiesAdd_Unbounded(caps, cap) == Append(caps, cap)

\* Capabilities::add
CapabilitiesAdd(caps, cap) ==
    IF Len(caps) < CAPABILITY_TABLE_LEN THEN Append(caps, cap) ELSE caps

\* Capabilities::get: the first capability of that name
CapabilitiesGet(caps, name) ==
    LET hits == {i \in 1..Len(caps) :
                    /\ Len(caps[i].name) = Len(name)
                    /\ caps[i].name = name}
    IN  IF hits = {}
        THEN [found |-> FALSE, function |-> NULL]
        ELSE LET i == CHOOSE j \in hits : \A h \in hits : j <= h
             IN  [found |-> TRUE, function |-> caps[i].function]

(***************************************************************************)
(* BlackBoardData                                                          *)
(***************************************************************************)
BlackBoardDataNew ==
    [some            |-> TRUE,
     data            |-> EmptyMap,
     listener        |-> CapabilitiesNew,
     user_data       |-> EmptyMap,
     key_to_listener |-> EmptyMap]

\* Option::None
NoBlackBoard == [BlackBoardDataNew EXCEPT !.some = FALSE]

ListenerKey(key, component) == key \o "_" \o component

Contains(seq, x) == \E i \in 1..Len(seq) : seq[i] = x

Retain(seq, x) == SelectSeq(seq, LAMBDA y : y # x)

\* BlackBoardData::subscribe
BlackBoardDataSubscribe(bb, key, component, callback, user_data) ==
    LET listener_key == ListenerKey(key, component)
        ktl == bb.key_to_listener
    IN  IF callback = NULL THEN bb
        ELSE IF key \in DOMAIN ktl /\ Contains(ktl[key], listener_key) THEN bb
        ELSE [bb EXCEPT
                !.key_to_listener =
                    IF key \notin DOMAIN ktl
                    THEN Put(ktl, key, <<listener_key>>)
                    ELSE Put(ktl, key, Append(ktl[key], listener_key)),
                !.listener =
                    CapabilitiesAdd(bb.listener,
                                    CapabilityNew(listener_key, callback)),
                !.user_data =
                    IF user_data # NULL
                    THEN Put(bb.user_data, listener_key, user_data)
                    ELSE bb.user_data]

\* Mutant: unsubscribe forgets the user_data but leaves the listener of the key.
BlackBoardDataUnsubscribe_KeepsListener(bb, key, component) ==
    [bb EXCEPT !.user_data = Remove(bb.user_data, ListenerKey(key, component))]

\* BlackBoardData::unsubscribe: the capability stays in the listener table
BlackBoardDataUnsubscribe(bb, key, component) ==
    LET listener_key == ListenerKey(key, component)
        ktl == bb.key_to_listener
    IN  IF key \notin DOMAIN ktl THEN bb
        ELSE LET listeners == Retain(ktl[key], listener_key)
             IN  [bb EXCEPT
                    !.key_to_listener =
                        IF Len(listeners) = 0
                        THEN Remove(ktl, key)
                        ELSE Put(ktl, key, listeners),
                    !.user_data = Remove(bb.user_data, listener_key)]

\* BlackBoardData::notify: the callbacks called, in order, and whether the
\* unwrap of a listener missing from the table panicked.
RECURSIVE NotifyFrom(_, _, _, _)
NotifyFrom(bb, key, listeners, i) ==
    IF i > Len(listeners) THEN [calls |-> << >>, panicked |-> FALSE]
    ELSE LET listener == listeners[i]
             cap == CapabilitiesGet(bb.listener, listener)
         IN  IF ~cap.found THEN [calls |-> << >>, panicked |-> TRUE]
             ELSE LET ud == IF listener \in DOMAIN bb.user_data
                               /\ bb.user_data[listener] # NULL
                            THEN bb.user_data[listener]
                            ELSE NULL
                      call == [listener |-> listener, key |-> key,
                               function |-> cap.function, user_data |-> ud,
                               seen |-> bb.data[key]]
                      rest == NotifyFrom(bb, key, listeners, i + 1)
                  IN  [calls |-> <<call>> \o rest.calls,
                       panicked |-> rest.panicked]

BlackBoardDataNotify(bb, key) ==
    IF key \notin DOMAIN bb.key_to_listener
    THEN [calls |-> << >>, panicked |-> FALSE]
    ELSE NotifyFrom(bb, key, bb.key_to_listener[key], 1)

\* Mutant: set inserts a new key but does not overwrite an existing entry.
BlackBoardDataSet_InsertOnly(bb, key, kind, value) ==
    LET stored == IF key \in DOMAIN bb.data THEN bb
                  ELSE [bb EXCEPT !.data = Put(bb.data, key, [kind |-> kind, v |-> value])]
        n == BlackBoardDataNotify(stored, key)
    IN  [bb |-> stored, calls |-> n.calls, panicked |-> n.panicked]

\* Mutant: set overwrites the value of an existing entry but keeps its kind.
BlackBoardDataSet_KeepsKind(bb, key, kind, value) ==
    LET k == IF key \in DOMAIN bb.data THEN bb.data[key].kind ELSE kind
        stored == [bb EXCEPT !.data = Put(bb.data, key, [kind |-> k, v |-> value])]
        n == BlackBoardDataNotify(stored, key)
    IN  [bb |-> stored, calls |-> n.calls, panicked |-> n.panicked]

\* BlackBoardData::set: store, then notify
BlackBoardDataSet(bb, key, kind, value) ==
    LET stored == [bb EXCEPT !.data = Put(bb.data, key, [kind |-> kind, v |-> value])]
        n == BlackBoardDataNotify(stored, key)
    IN  [bb |-> stored, calls |-> n.calls, panicked |-> n.panicked]

\* Mutant: get hands out the stored value without the downcast to T.
BlackBoardDataGet_NoDowncast(bb, key, kind) ==
    IF key \in DOMAIN bb.data THEN [ok |-> TRUE, v |-> bb.data[key].v]
    ELSE [ok |-> FALSE, v |-> << >>]

\* BlackBoardData::get::<T>
BlackBoardDataGet(bb, key, kind) ==
    IF key \notin DOMAIN bb.data THEN [ok |-> FALSE, v |-> << >>]
    ELSE IF bb.data[key].kind # kind THEN [ok |-> FALSE, v |-> << >>]
    ELSE [ok |-> TRUE, v |-> bb.data[key].v]

\* BlackBoardData::is_key_valid
IsKeyValid(bb, key) == key \in DOMAIN bb.data

\* BlackBoardData::reset
BlackBoardDataReset(bb) == [bb EXCEPT !.data = EmptyMap]

(***************************************************************************)
(* Start-up attributes                                                     *)
(***************************************************************************)
\* BlackboardValue is an untagged enum: a YAML scalar becomes the first
\* variant, in declaration order, that accepts its shape.
VariantAccepts(variant, shape) ==
    CASE variant = "String" -> shape = "str"
      [] variant = "Int"    -> shape = "int"
      [] variant = "Float"  -> shape \in {"int", "float"}
      [] variant = "Double" -> shape \in {"int", "float"}
      [] variant = "Bool"   -> shape = "bool"

VariantOrder == <<"String", "Int", "Float", "Double", "Bool">>

\* The f32 nearest to the number x, ties to the even significand, as serde
\* narrows a parsed number to the Float variant.  Floats are modelled by
\* their integral values; x is below 2^(F32_MANTISSA_DIGITS + 1) in size.
AsF32(x) ==
    LET a == IF x < 0 THEN -x ELSE x
        r == IF a <= 2 ^ F32_MANTISSA_DIGITS THEN a
             ELSE IF a % 2 = 0 THEN a
             ELSE IF (a + 1) % 4 = 0 THEN a + 1
             ELSE a - 1
    IN  IF x < 0 THEN -r ELSE r

\* The value a variant holds for a parsed scalar.
Deserialize(variant, v) ==
    IF variant = "Float" THEN [i \in 1..Len(v) |-> AsF32(v[i])] ELSE v

Discriminate(shape) ==
    LET i == CHOOSE j \in 1..Len(VariantOrder) :
                /\ VariantAccepts(VariantOrder[j], shape)
                /\ \A h \in 1..(j - 1) : ~VariantAccepts(VariantOrder[h], shape)
    IN  VariantOrder[i]

\* The attribute strings a caller passes to start: the null pointer (none
\* given), a string that is no sequence of {key, value} entries, or such a
\* sequence.
NullAttributes == [given |-> FALSE, well_formed |-> FALSE, entries |-> << >>]

BadAttributes == [given |-> TRUE, well_formed |-> FALSE, entries |-> << >>]

Attributes(entries) == [given |-> TRUE, well_formed |-> TRUE, entries |-> entries]

ScAttributes(sc) ==
    {NullAttributes, BadAttributes} \cup
    IF sc = "typed"
    THEN {Attributes(<<[key |-> "a", shape |-> "str", v |-> <<104, 105>>],
                       [key |-> "a_b", shape |-> "int", v |-> <<42>>]>>),
          Attributes(<<[key |-> "a", shape |-> "float", v |-> <<1>>],
                       [key |-> "a", shape |-> "bool", v |-> <<1>>]>>),
          Attributes(<<[key |-> "a_b", shape |-> "float", v |-> <<1>>],
                       [key |-> "a", shape |-> "float", v |-> <<2 ^ F32_MANTISSA_DIGITS + 1>>]>>)}
    ELSE {Attributes(<<[key |-> "a", shape |-> "int", v |-> <<7>>]>>)}

(***************************************************************************)
(* Outcomes of a call                                                      *)
(***************************************************************************)
\* The call returned ret; bb is the store it leaves behind.
Returned(bb, ret) ==
    [bb |-> bb, status |-> "returned", ret |-> ret, calls |-> << >>,
     poison |-> FALSE]

\* The call panicked before taking the lock, or taking a poisoned lock.
Panicked(bb) ==
    [bb |-> bb, status |-> "panicked", ret |-> 0, calls |-> << >>,
     poison |-> FALSE]

\* get_singleton().lock().unwrap()
Lock(pois, bb, body) == IF pois THEN Panicked(bb) ELSE body

\* The result of a call to BlackBoardData::set made under the lock: a panic
\* in notify unwinds through the guard and poisons the mutex.
AfterSet(s) ==
    IF s.panicked
    THEN [bb |-> s.bb, status |-> "panicked", ret |-> 0, calls |-> s.calls,
          poison |-> TRUE]
    ELSE [bb |-> s.bb, status |-> "returned", ret |-> 0, calls |-> s.calls,
          poison |-> FALSE]

\* The null pointer passed where a C string is expected.
NullStr == "<null>"

\* The null pointer passed as an output location.
NullOut == << >>

(***************************************************************************)
(* The functions behind the exported entry points                          *)
(***************************************************************************)
\* start_server: the entries of a parsed attribute list are set in order
RECURSIVE SetEntries(_, _, _)
SetEntries(bb, entries, i) ==
    IF i > Len(entries) THEN bb
    ELSE SetEntries(
            BlackBoardDataSet(bb, entries[i].key,
                              Discriminate(entries[i].shape),
                              Deserialize(Discriminate(entries[i].shape),
                                          entries[i].v)).bb,
            entries, i + 1)

start_server(pois, bb, attributes) ==
    Lock(pois, bb,
         IF bb.some THEN Returned(bb, -1)
         ELSE IF ~attributes.given THEN Returned(BlackBoardDataNew, 0)
         ELSE IF ~attributes.well_formed THEN Returned(BlackBoardDataNew, -1)
         ELSE Returned(SetEntries(BlackBoardDataNew, attributes.entries, 1), 0))

\* Mutant: stop returns 0 and leaves the store as it is.
stop_intern_KeepsStore(pois, bb) == Lock(pois, bb, Returned(bb, 0))

\* stop
stop_intern(pois, bb) == Lock(pois, bb, Returned(NoBlackBoard, 0))

reset_intern(pois, bb) ==
    Lock(pois, bb,
         IF ~bb.some THEN Returned(bb, -1)
         ELSE Returned(BlackBoardDataReset(bb), 0))

size_intern(pois, bb) ==
    Lock(pois, bb,
         IF ~bb.some THEN Returned(bb, -1)
         ELSE Returned(bb, Cardinality(DOMAIN bb.data)))

\* Mutant: a null value is taken for the empty string.
set_string_intern_NullAsEmpty(pois, bb, ckey, cvalue) ==
    IF ckey = NullStr THEN Returned(bb, -1)
    ELSE Lock(pois, bb,
              IF ~bb.some THEN Returned(bb, -1)
              ELSE AfterSet(BlackBoardDataSet(bb, ckey, "String", << >>)))

set_string_intern(pois, bb, ckey, cvalue) ==
    IF ckey = NullStr THEN Returned(bb, -1)
    ELSE IF cvalue.null THEN Returned(bb, -1)
    ELSE Lock(pois, bb,
              IF ~bb.some THEN Returned(bb, -1)
              ELSE AfterSet(BlackBoardDataSet(bb, ckey, "String", cvalue.v)))

\* set_int_intern, set_float_intern, set_double_intern, set_bool_intern
set_scalar_intern(pois, bb, kind, ckey, value) ==
    IF ckey = NullStr THEN Returned(bb, -1)
    ELSE Lock(pois, bb,
              IF ~bb.some THEN Returned(bb, -1)
              ELSE AfterSet(BlackBoardDataSet(bb, ckey, kind, value)))

\* copy_nonoverlapping(src, dst, len(src)): the cells after the copy keep
\* what they held
CopyInto(mem, src) ==
    [i \in 1..Len(mem) |-> IF i <= Len(src) THEN src[i] ELSE mem[i]]

\* get_string_intern: the outcome and the caller's buffer afterwards
get_string_intern(pois, bb, ckey, cvalue) ==
    IF ckey = NullStr THEN [r |-> Returned(bb, -1), out |-> cvalue]
    ELSE IF pois THEN [r |-> Panicked(bb), out |-> cvalue]
    ELSE IF ~bb.some THEN [r |-> Returned(bb, -1), out |-> cvalue]
    ELSE IF ~IsKeyValid(bb, ckey) THEN [r |-> Returned(bb, -1), out |-> cvalue]
    ELSE LET v == BlackBoardDataGet(bb, ckey, "String")
         IN  IF v.ok
             THEN [r |-> Returned(bb, Len(v.v) + 1),
                   out |-> IF cvalue # NullOut THEN CopyInto(cvalue, v.v)
                           ELSE cvalue]
             ELSE [r |-> Returned(bb, -1), out |-> cvalue]

\* get_int_intern, get_float_intern, get_double_intern, get_bool_intern
get_scalar_intern(pois, bb, kind, ckey, value) ==
    IF ckey = NullStr THEN [r |-> Returned(bb, -1), out |-> value]
    ELSE IF value = NullOut THEN [r |-> Returned(bb, -1), out |-> value]
    ELSE IF pois THEN [r |-> Panicked(bb), out |-> value]
    ELSE IF ~bb.some THEN [r |-> Returned(bb, -1), out |-> value]
    ELSE IF ~IsKeyValid(bb, ckey) THEN [r |-> Returned(bb, -1), out |-> value]
    ELSE LET v == BlackBoardDataGet(bb, ckey, kind)
         IN  IF v.ok THEN [r |-> Returned(bb, 0), out |-> v.v]
             ELSE [r |-> Returned(bb, -1), out |-> value]

\* Mutant: subscribe registers without asking whether the store is running.
subscribe_intern_Unchecked(pois, bb, key, component, callback, user_data) ==
    Lock(pois, bb,
         Returned(BlackBoardDataSubscribe(bb, key, component, callback,
                                          user_data), 0))

subscribe_intern(pois, bb, key, component, callback, user_data) ==
    Lock(pois, bb,
         IF ~bb.some THEN Returned(bb, -1)
         ELSE Returned(BlackBoardDataSubscribe(bb, key, component, callback,
                                               user_data), 0))

unsubscribe_intern(pois, bb, key, component) ==
    Lock(pois, bb,
         IF ~bb.some THEN Returned(bb, -1)
         ELSE Returned(BlackBoardDataUnsubscribe(bb, key, component), 0))

(***************************************************************************)
(* as_json_schema                                                          *)
(***************************************************************************)
\* The keys in the order of serde_json's sorted map.
KeyOrder == <<"a", "a_b">>

CharOf(b) == CASE b = 104 -> "h" [] b = 105 -> "i" [] OTHER -> "?"

RECURSIVE TextOf(_, _)
TextOf(bytes, i) ==
    IF i > Len(bytes) THEN "" ELSE CharOf(bytes[i]) \o TextOf(bytes, i + 1)

JsonTypeOf(kind) ==
    CASE kind = "String" -> "string"
      [] kind = "Int"    -> "integer"
      [] kind = "Float"  -> "number"
      [] kind = "Double" -> "number"
      [] kind = "Bool"   -> "boolean"

\* serde_json::Value::from: a float that is not finite becomes Value::Null.
ValueInto(e) ==
    CASE e.kind = "String" -> [json |-> "string", v |-> e.v]
      [] e.kind = "Int"    -> [json |-> "number", v |-> e.v]
      [] e.kind \in {"Float", "Double"} ->
            IF e.v[1] = Infinity THEN [json |-> "null", v |-> << >>]
            ELSE [json |-> "number", v |-> e.v]
      [] e.kind = "Bool"   -> [json |-> "boolean", v |-> e.v]

\* A float cell n stands for the float n.0.
JsonValueOf(e) ==
    CASE ValueInto(e).json = "null" -> "null"
      [] e.kind = "String" -> "\"" \o TextOf(e.v, 1) \o "\""
      [] e.kind = "Int"    -> ToString(e.v[1])
      [] e.kind = "Float"  -> ToString(e.v[1]) \o ".0"
      [] e.kind = "Double" -> ToString(e.v[1]) \o ".0"
      [] e.kind = "Bool"   -> IF e.v[1] = 1 THEN "true" ELSE "false"

\* The members of the properties object of the schema.
SchemaProperties(data) ==
    [k \in DOMAIN data |-> [type |-> JsonTypeOf(data[k].kind),
                            value |-> ValueInto(data[k])]]

JsonProperty(key, e) ==
    "\"" \o key \o "\":{\"type\":\"" \o JsonTypeOf(e.kind)
         \o "\",\"value\":" \o JsonValueOf(e) \o "}"

RECURSIVE JsonProperties(_, _, _)
JsonProperties(data, i, first) ==
    IF i > Len(KeyOrder) THEN ""
    ELSE IF KeyOrder[i] \notin DOMAIN data THEN JsonProperties(data, i + 1, first)
    ELSE (IF first THEN "" ELSE ",")
         \o JsonProperty(KeyOrder[i], data[KeyOrder[i]])
         \o JsonProperties(data, i + 1, FALSE)

JsonSchema(data) ==
    "{\"$schema\":\"http://json-schema.org/draft-07/schema#\",\"properties\":{"
    \o JsonProperties(data, 1, TRUE) \o "},\"type\":\"object\"}"

\* as_json_schema_intern: a buffer is the text written, whether a NUL follows
\* it, and the properties that text spells; the schema string carries its NUL.
as_json_schema_intern(pois, bb, cvalue) ==
    IF pois THEN [r |-> Panicked(bb), out |-> cvalue]
    ELSE IF ~bb.some THEN [r |-> Returned(bb, -1), out |-> cvalue]
    ELSE LET schema == JsonSchema(bb.data)
         IN  [r |-> Returned(bb, Len(schema) + 1),
              out |-> IF cvalue.null THEN cvalue
                      ELSE [null |-> FALSE, text |-> schema, nul |-> TRUE,
                            properties |-> SchemaProperties(bb.data)]]

(***************************************************************************)
(* State machine: one step per call of an entry point                      *)
(***************************************************************************)
\* No entry under a key.
NoEntry == [kind |-> "", v |-> << >>]

EntryAt(bb, key) == IF key \in DOMAIN bb.data THEN bb.data[key] ELSE NoEntry

AttrsShape(attributes) ==
    IF ~attributes.given THEN "null"
    ELSE IF attributes.well_formed THEN "list" ELSE "bad"

\* The subscription history.  A (key, component) is subscribed from a
\* subscribe with a callback that returns 0 while it is not subscribed,
\* until an unsubscribe of it that returns 0 or a stop.
IsSubscribed(h, key, component) ==
    \E i \in 1..Len(h) : h[i].key = key /\ h[i].comp = component

SubscribeHistory(h, r, key, component, callback, user_data) ==
    IF /\ r.status = "returned" /\ r.ret = 0
       /\ callback # NULL
       /\ ~IsSubscribed(h, key, component)
    THEN Append(h, [key |-> key, comp |-> component, cb |-> callback,
                    ud |-> user_data])
    ELSE h

UnsubscribeHistory(h, r, key, component) ==
    IF r.status = "returned" /\ r.ret = 0
    THEN SelectSeq(h, LAMBDA x : ~(x.key = key /\ x.comp = component))
    ELSE h

NoObs ==
    [op |-> "none", key |-> "", comp |-> "", kind |-> "", val |-> << >>,
     null_value |-> FALSE,
     cb |-> NULL, ud |-> NULL, attrs |-> "", old |-> NoEntry,
     status |-> "returned", ret |-> 0,
     out0 |-> << >>, out |-> << >>, calls |-> << >>,
     was |-> NoBlackBoard, entries |-> << >>]

Obs(op, r) ==
    [NoObs EXCEPT !.op = op, !.status = r.status, !.ret = r.ret,
                  !.calls = r.calls]

\* The threads of the concurrent view of the store.
Threads == {"t1", "t2"}

NoThread == "none"

NoCall == [op |-> "none", key |-> "", value |-> << >>]

ThreadsIdle ==
    /\ pc = [t \in Threads |-> "idle"]
    /\ calling = [t \in Threads |-> NoCall]
    /\ holder = NoThread
    /\ events = << >>

\* No call has been made on the capability table under test.
NoProbe == [op |-> "none", name |-> "", function |-> NULL, before |-> << >>,
            found |-> FALSE, got |-> NULL, named |-> "", added |-> << >>,
            adds |-> 0]

\* The runtime has not been launched and no table is under test.
\* Option::None of the server state
NoServer == [some |-> FALSE, task |-> "", hostname |-> "", port |-> 0]

\* No call has been made on the webinterface.
NoWebCall ==
    [op |-> "none", prev |-> "none", attributes |-> NullAttributes,
     machine |-> "ok",
     status |-> "returned", ret |-> 0, was |-> NoServer, now |-> NoServer]

WebIdle ==
    /\ SERVER_STATE = NoServer
    /\ wlogger = FALSE
    /\ wlast = NoWebCall

LoaderIdle ==
    /\ WebIdle
    /\ config = << >>
    /\ libraries = << >>
    /\ inner = << >>
    /\ main = "off"
    /\ visited = 0
    /\ lhist = << >>
    /\ table = << >>
    /\ probe = NoProbe

Init ==
    /\ scenario \in Scenarios
    /\ singleton = NoBlackBoard
    /\ poisoned = FALSE
    /\ logger = FALSE
    /\ subs = << >>
    /\ last = NoObs
    /\ ThreadsIdle
    /\ LoaderIdle

\* The effect of a call on the store and on the lock.
Effect(r) ==
    /\ singleton' = r.bb
    /\ poisoned' = (poisoned \/ r.poison)
    /\ UNCHANGED <<lvars, scenario, tvars>>

\* start: env_logger::init() panics when the logger is already installed.
\* (In the universe of many subscribers the store is started as the
\* crate's tests start it, by CallStartServer.)
CallStart ==
    \E attributes \in ScAttributes(scenario) :
        LET r == IF logger THEN Panicked(singleton)
                 ELSE start_server(poisoned, singleton, attributes)
        IN  /\ scenario # "observers"
            /\ Effect(r)
            /\ logger' = TRUE
            /\ last' = [Obs("start", r) EXCEPT !.attrs = AttrsShape(attributes),
                                              !.entries = attributes.entries]
            /\ UNCHANGED subs

\* start_server called directly, as the crate's tests do
CallStartServer ==
    \E attributes \in ScAttributes(scenario) :
        LET r == start_server(poisoned, singleton, attributes)
        IN  /\ Effect(r)
            /\ last' = [Obs("start", r) EXCEPT !.attrs = AttrsShape(attributes),
                                              !.entries = attributes.entries]
            /\ UNCHANGED <<logger, subs>>

CallStop ==
    LET r == stop_intern(poisoned, singleton)
    IN  /\ Effect(r)
        /\ last' = [Obs("stop", r) EXCEPT !.was = singleton]
        /\ subs' = IF r.status = "returned" THEN << >> ELSE subs
        /\ UNCHANGED logger

CallReset ==
    LET r == reset_intern(poisoned, singleton)
    IN  /\ Effect(r)
        /\ last' = Obs("reset", r)
        /\ UNCHANGED <<logger, subs>>

CallSize ==
    LET r == size_intern(poisoned, singleton)
    IN  /\ Queries(scenario)
        /\ Effect(r)
        /\ last' = Obs("size", r)
        /\ UNCHANGED <<logger, subs>>

CallSetString ==
    \E ckey \in ScKeyArgs(scenario),
       cvalue \in {[null |-> TRUE, v |-> << >>]}
                  \cup {[null |-> FALSE, v |-> v] : v \in ScValues(scenario, "String")} :
        LET r == set_string_intern(poisoned, singleton, ckey, cvalue)
        IN  /\ Queries(scenario)
            /\ Effect(r)
            /\ last' = [Obs("set", r) EXCEPT !.key = ckey, !.kind = "String",
                                            !.val = cvalue.v,
                                            !.null_value = cvalue.null,
                                            !.old = EntryAt(singleton, ckey)]
            /\ UNCHANGED <<logger, subs>>

SetScalar(kind) ==
    \E ckey \in ScKeyArgs(scenario), value \in ScValues(scenario, kind) :
        LET r == set_scalar_intern(poisoned, singleton, kind, ckey, value)
        IN  /\ Effect(r)
            /\ last' = [Obs("set", r) EXCEPT !.key = ckey, !.kind = kind,
                                            !.val = value,
                                            !.old = EntryAt(singleton, ckey)]
            /\ UNCHANGED <<logger, subs>>

CallSetInt == SetScalar("Int")

CallSetFloat == SetScalar("Float")

CallSetDouble == SetScalar("Double")

CallSetBool == SetScalar("Bool")

\* The caller passes no buffer, or one sized by a first call: one byte more
\* than the stored string (one byte when there is none), holding anything.
StringBuffers(bb, key) ==
    LET n == IF key \in DOMAIN bb.data /\ bb.data[key].kind = "String"
             THEN Len(bb.data[key].v) + 1 ELSE 1
    IN  {NullOut} \cup {[i \in 1..n |-> f] : f \in Fills}

CallGetString ==
    \E ckey \in ScKeyArgs(scenario) :
      \E cvalue \in StringBuffers(singleton, ckey) :
        LET g == get_string_intern(poisoned, singleton, ckey, cvalue)
        IN  /\ scenario \in {"typed", "churn"}
            /\ Effect(g.r)
            /\ last' = [Obs("get", g.r) EXCEPT !.key = ckey, !.kind = "String",
                                              !.out0 = cvalue, !.out = g.out]
            /\ UNCHANGED <<logger, subs>>

GetScalar(kind) ==
    \E ckey \in ScKeyArgs(scenario),
       value \in {<<f>> : f \in Fills}
                 \cup (IF scenario = "churn" THEN {NullOut} ELSE {}) :
        LET g == get_scalar_intern(poisoned, singleton, kind, ckey, value)
        IN  /\ scenario = "typed" \/ (scenario = "churn" /\ kind = "Int")
            /\ Effect(g.r)
            /\ last' = [Obs("get", g.r) EXCEPT !.key = ckey, !.kind = kind,
                                              !.out0 = value, !.out = g.out]
            /\ UNCHANGED <<logger, subs>>

CallGetInt == GetScalar("Int")

CallGetFloat == GetScalar("Float")

CallGetDouble == GetScalar("Double")

CallGetBool == GetScalar("Bool")

CallAsJsonSchema ==
    \E cvalue \in {[null |-> TRUE, text |-> "", nul |-> FALSE,
                    properties |-> EmptyMap],
                   [null |-> FALSE, text |-> "", nul |-> FALSE,
                    properties |-> EmptyMap]} :
        LET g == as_json_schema_intern(poisoned, singleton, cvalue)
        IN  /\ Queries(scenario)
            /\ Effect(g.r)
            /\ last' = [Obs("as_json_schema", g.r) EXCEPT
                            !.out0 = cvalue, !.out = g.out]
            /\ UNCHANGED <<logger, subs>>

CallSubscribe ==
    \E p \in ScPairs(scenario), s \in ScSubscribers(scenario) :
        LET key == p[1]
            component == p[2]
            callback == s.callback
            user_data == s.user_data
            r == subscribe_intern(poisoned, singleton, key, component,
                                  callback, user_data)
        IN  /\ scenario = "churn" \/ Len(r.bb.listener) <= MaxListenerAdds
            /\ Effect(r)
            /\ last' = [Obs("subscribe", r) EXCEPT !.key = key,
                            !.comp = component, !.cb = callback, !.ud = user_data]
            /\ subs' = SubscribeHistory(subs, r, key, component, callback,
                                        user_data)
            /\ UNCHANGED logger

CallUnsubscribe ==
    \E p \in ScPairs(scenario) :
        LET key == p[1]
            component == p[2]
            r == unsubscribe_intern(poisoned, singleton, key, component)
        IN  /\ Effect(r)
            /\ last' = [Obs("unsubscribe", r) EXCEPT !.key = key,
                                                    !.comp = component]
            /\ subs' = UnsubscribeHistory(subs, r, key, component)
            /\ UNCHANGED logger

Next ==
    \/ CallStart
    \/ CallStartServer
    \/ CallStop
    \/ CallReset
    \/ CallSize
    \/ CallSetString
    \/ CallGetString
    \/ CallSetInt
    \/ CallGetInt
    \/ CallSetFloat
    \/ CallGetFloat
    \/ CallSetDouble
    \/ CallGetDouble
    \/ CallSetBool
    \/ CallGetBool
    \/ CallAsJsonSchema
    \/ CallSubscribe
    \/ CallUnsubscribe

Spec == Init /\ [][Next]_vars

(***************************************************************************)
(* The concurrent view: threads inside the exported calls                  *)
(*                                                                         *)
(* set_int_intern and size_intern step by step.  A thread takes the mutex  *)
(* (lock().unwrap()), stores, calls the listeners of the key one after the *)
(* other and drops the guard at the end of the block.  A callback is       *)
(* foreign code: it returns, or it calls an entry point of the blackboard, *)
(* which locks the mutex its own thread holds.                             *)
(***************************************************************************)
\* Calls begun by all threads together.
MaxThreadCalls == 3

\* the value each thread publishes
ThreadValue(t) == IF t = "t1" THEN <<1>> ELSE <<2>>

\* The store the threads work on: started without attributes, "a" subscribed
\* by component c with a context and by component d without.
ThreadsStore ==
    subscribe_intern(FALSE,
        subscribe_intern(FALSE,
            start_server(FALSE, NoBlackBoard, NullAttributes).bb,
            "a", "c", 1, 7).bb,
        "a", "d", 2, NULL).bb

InitThreads ==
    /\ scenario = "threads"
    /\ singleton = ThreadsStore
    /\ poisoned = FALSE
    /\ logger = FALSE
    /\ subs = <<[key |-> "a", comp |-> "c", cb |-> 1, ud |-> 7],
                [key |-> "a", comp |-> "d", cb |-> 2, ud |-> NULL]>>
    /\ last = NoObs
    /\ ThreadsIdle
    /\ LoaderIdle

\* Mutant: a mutex that any thread may take at any time.
MutexFree_Always(h) == TRUE

\* Mutex::lock returns when no thread holds the mutex.
MutexFree(h) == h = NoThread

\* Mutant: a mutex its holder can lock again.
RelockOutcomes_Reentrant == {"deadlocked", "panicked", "acquired"}

\* Mutex::lock called by the thread that holds the mutex does not return:
\* it blocks for ever or it panics.
RelockOutcomes == {"deadlocked", "panicked"}

CallsBegun == Cardinality({i \in 1..Len(events) : events[i].e = "begun"})

\* the component the threads unsubscribe from the key "a"
ThreadComponent == "c"

\* The calls the threads make: set_int(key, value) and size(), and where
\* subscribers leave while others publish, set_int, unsubscribe(key,
\* component) and stop().
ThreadCalls(sc, t) ==
    IF sc = "race"
    THEN {[op |-> "set", key |-> "a", value |-> ThreadValue(t)],
          [op |-> "unsubscribe", key |-> "a", value |-> << >>],
          [op |-> "stop", key |-> "", value |-> << >>]}
    ELSE {[op |-> "set", key |-> "a", value |-> ThreadValue(t)],
          [op |-> "size", key |-> "", value |-> << >>]}

\* a thread enters a call
ThreadBegin(t) ==
    \E c \in ThreadCalls(scenario, t) :
        /\ pc[t] = "idle"
        /\ CallsBegun < MaxThreadCalls
        /\ pc' = [pc EXCEPT ![t] = "lock"]
        /\ calling' = [calling EXCEPT ![t] = c]
        /\ events' = Append(events, [e |-> "begun", t |-> t, op |-> c.op])
        /\ UNCHANGED <<lvars, scenario, singleton, poisoned, logger, subs, last, holder>>

\* get_singleton().lock().unwrap() on a sound mutex, then the is_none check
ThreadLock(t) ==
    /\ pc[t] = "lock"
    /\ MutexFree(holder)
    /\ ~poisoned
    /\ holder' = t
    /\ pc' = [pc EXCEPT ![t] =
                IF calling[t].op = "stop" THEN "halt"
                ELSE IF ~singleton.some THEN "unlock"
                ELSE IF calling[t].op = "set" THEN "store"
                ELSE IF calling[t].op = "unsubscribe" THEN "unsubscribe"
                ELSE "read"]
    /\ UNCHANGED <<lvars, scenario, singleton, poisoned, logger, subs, last, calling, events>>

\* get_singleton().lock().unwrap() on a poisoned mutex panics
ThreadLockPoisoned(t) ==
    /\ pc[t] = "lock"
    /\ MutexFree(holder)
    /\ poisoned
    /\ pc' = [pc EXCEPT ![t] = "dead"]
    /\ events' = Append(events, [e |-> "panicked", t |-> t])
    /\ UNCHANGED <<lvars, scenario, singleton, poisoned, logger, subs, last, calling, holder>>

\* BlackBoardData::set, up to the call of notify
ThreadStore(t) ==
    /\ pc[t] = "store"
    /\ singleton' = [singleton EXCEPT
                        !.data = Put(singleton.data, calling[t].key,
                                     [kind |-> "Int", v |-> calling[t].value])]
    /\ pc' = [pc EXCEPT ![t] = "notify"]
    /\ events' = Append(events, [e |-> "stored", t |-> t, v |-> calling[t].value])
    /\ UNCHANGED <<lvars, scenario, poisoned, logger, subs, last, calling, holder>>

\* the callbacks thread t has called in its present call
CalledBy(t) ==
    LET mine == {i \in 1..Len(events) : events[i].t = t}
        begun == CHOOSE i \in mine :
                    /\ events[i].e = "begun"
                    /\ \A j \in mine : events[j].e = "begun" => j <= i
    IN  Cardinality({i \in mine : i > begun /\ events[i].e = "called"})

\* BlackBoardData::notify: the next listener of the key is called, or the
\* loop is over
ThreadNotify(t) ==
    LET n == BlackBoardDataNotify(singleton, calling[t].key)
        i == CalledBy(t) + 1
    IN  /\ pc[t] = "notify"
        /\ IF i > Len(n.calls)
           THEN /\ pc' = [pc EXCEPT ![t] = "unlock"]
                /\ UNCHANGED events
           ELSE /\ pc' = [pc EXCEPT ![t] = "callback"]
                /\ events' = Append(events,
                                [e |-> "called", t |-> t,
                                 listener |-> n.calls[i].listener,
                                 function |-> n.calls[i].function,
                                 user_data |-> n.calls[i].user_data,
                                 seen |-> n.calls[i].seen])
        /\ UNCHANGED <<lvars, scenario, singleton, poisoned, logger, subs, last, calling, holder>>

\* the callback returns to notify
CallbackReturns(t) ==
    /\ pc[t] = "callback"
    /\ pc' = [pc EXCEPT ![t] = "notify"]
    /\ UNCHANGED <<lvars, scenario, singleton, poisoned, logger, subs, last, calling, holder, events>>

\* the callback calls an entry point of the blackboard, which goes for the
\* mutex
CallbackReenters(t) ==
    /\ pc[t] = "callback"
    /\ pc' = [pc EXCEPT ![t] = "relock"]
    /\ events' = Append(events, [e |-> "reentered", t |-> t])
    /\ UNCHANGED <<lvars, scenario, singleton, poisoned, logger, subs, last, calling, holder>>

\* lock() on the mutex the thread holds itself.  A panic there ends the
\* thread's call; unwinding drops the guard and poisons the mutex.
ThreadRelock(t) ==
    \E outcome \in RelockOutcomes :
        /\ pc[t] = "relock"
        /\ CASE outcome = "deadlocked" ->
                  /\ pc' = [pc EXCEPT ![t] = "deadlocked"]
                  /\ UNCHANGED <<holder, poisoned, events>>
             [] outcome = "panicked" ->
                  /\ pc' = [pc EXCEPT ![t] = "dead"]
                  /\ holder' = NoThread
                  /\ poisoned' = TRUE
                  /\ events' = Append(events, [e |-> "panicked", t |-> t])
             [] OTHER ->
                  /\ pc' = [pc EXCEPT ![t] = "callback"]
                  /\ UNCHANGED <<holder, poisoned, events>>
        /\ UNCHANGED <<lvars, scenario, singleton, logger, subs, last, calling>>

\* size_intern: data.len() under the guard
ThreadRead(t) ==
    /\ pc[t] = "read"
    /\ pc' = [pc EXCEPT ![t] = "unlock"]
    /\ events' = Append(events, [e |-> "read", t |-> t,
                                 size |-> Cardinality(DOMAIN singleton.data)])
    /\ UNCHANGED <<lvars, scenario, singleton, poisoned, logger, subs, last, calling, holder>>

\* Mutant: unsubscribe_intern changes the store without holding the mutex.
ThreadUnsubscribe_Unlocked(t) ==
    /\ pc[t] = "lock"
    /\ calling[t].op = "unsubscribe"
    /\ singleton.some
    /\ singleton' = BlackBoardDataUnsubscribe(singleton, calling[t].key,
                                              ThreadComponent)
    /\ subs' = SelectSeq(subs, LAMBDA x : ~(x.key = calling[t].key
                                            /\ x.comp = ThreadComponent))
    /\ pc' = [pc EXCEPT ![t] = "unlock"]
    /\ events' = Append(events,
                    [e |-> "unsubscribed", t |-> t,
                     listener |-> ListenerKey(calling[t].key, ThreadComponent)])
    /\ UNCHANGED <<lvars, scenario, poisoned, logger, last, calling, holder>>

\* unsubscribe_intern: BlackBoardData::unsubscribe under the guard
ThreadUnsubscribe(t) ==
    /\ pc[t] = "unsubscribe"
    /\ singleton' = BlackBoardDataUnsubscribe(singleton, calling[t].key,
                                              ThreadComponent)
    /\ subs' = SelectSeq(subs, LAMBDA x : ~(x.key = calling[t].key
                                            /\ x.comp = ThreadComponent))
    /\ pc' = [pc EXCEPT ![t] = "unlock"]
    /\ events' = Append(events,
                    [e |-> "unsubscribed", t |-> t,
                     listener |-> ListenerKey(calling[t].key, ThreadComponent)])
    /\ UNCHANGED <<lvars, scenario, poisoned, logger, last, calling, holder>>

\* stop: the store is dropped under the guard
ThreadStop(t) ==
    /\ pc[t] = "halt"
    /\ singleton' = NoBlackBoard
    /\ subs' = << >>
    /\ pc' = [pc EXCEPT ![t] = "unlock"]
    /\ events' = Append(events, [e |-> "stopped", t |-> t])
    /\ UNCHANGED <<lvars, scenario, poisoned, logger, last, calling, holder>>

\* the guard is dropped and the call returns
ThreadUnlock(t) ==
    /\ pc[t] = "unlock"
    /\ holder' = IF holder = t THEN NoThread ELSE holder
    /\ pc' = [pc EXCEPT ![t] = "idle"]
    /\ events' = Append(events, [e |-> "returned", t |-> t])
    /\ UNCHANGED <<lvars, scenario, singleton, poisoned, logger, subs, last, calling>>

NextThreads ==
    \E t \in Threads :
        \/ ThreadBegin(t)
        \/ ThreadLock(t)
        \/ ThreadLockPoisoned(t)
        \/ ThreadStore(t)
        \/ ThreadNotify(t)
        \/ CallbackReturns(t)
        \/ CallbackReenters(t)
        \/ ThreadRelock(t)
        \/ ThreadRead(t)
        \/ ThreadUnlock(t)

SpecThreads == InitThreads /\ [][NextThreads]_vars

\* The store of the threads, with threads that unsubscribe and stop.
InitRace ==
    /\ scenario = "race"
    /\ singleton = ThreadsStore
    /\ poisoned = FALSE
    /\ logger = FALSE
    /\ subs = <<[key |-> "a", comp |-> "c", cb |-> 1, ud |-> 7],
                [key |-> "a", comp |-> "d", cb |-> 2, ud |-> NULL]>>
    /\ last = NoObs
    /\ ThreadsIdle
    /\ LoaderIdle

NextRace ==
    \E t \in Threads :
        \/ ThreadBegin(t)
        \/ ThreadLock(t)
        \/ ThreadLockPoisoned(t)
        \/ ThreadStore(t)
        \/ ThreadNotify(t)
        \/ CallbackReturns(t)
        \/ CallbackReenters(t)
        \/ ThreadRelock(t)
        \/ ThreadUnsubscribe(t)
        \/ ThreadStop(t)
        \/ ThreadUnlock(t)

SpecRace == InitRace /\ [][NextRace]_vars

(***************************************************************************)
(* The plugin loader: shared objects, descriptors, wiring and lifecycle    *)
(*                                                                         *)
(* A shared object on disk is a record: whether dlopen accepts it, what    *)
(* its summary symbol yields and which symbols it exports.  A loaded       *)
(* library is named by the path it was loaded from; a function pointer is  *)
(* the address of a symbol in an image, an integer.  Option<Vec<T>> is a   *)
(* record [some, list].                                                    *)
(***************************************************************************)
Some(list) == [some |-> TRUE, list |-> list]

None == [some |-> FALSE, list |-> << >>]

\* RTCapabilityInfo::new
RTCapabilityInfoNew(capability, entry) == [capability |-> capability, entry |-> entry]

\* RTLibrarySummary::new
RTLibrarySummaryNew(name, library_type, version, provides, requires) ==
    [name |-> name, library_type |-> library_type, version |-> version,
     provides |-> provides, requires |-> requires]

\* The entries of the blackboard's SUMMARY_MESSAGE, in declared order; each
\* is provided as the capability blackboard_<entry>.
BlackboardEntries ==
    <<"start", "stop", "reset", "size", "get_string", "set_string", "get_int",
      "set_int", "get_bool", "set_bool", "get_float", "set_float",
      "get_double", "set_double", "as_json_schema", "subscribe", "unsubscribe">>

\* SUMMARY_MESSAGE of the blackboard plugin
BlackboardSummary ==
    RTLibrarySummaryNew("blackboard", "Service", "0.1.0",
        Some([i \in 1..Len(BlackboardEntries) |->
                RTCapabilityInfoNew("blackboard_" \o BlackboardEntries[i],
                                    BlackboardEntries[i])]),
        None)

\* SUMMARY_MESSAGE of the webinterface plugin
WebinterfaceSummary ==
    RTLibrarySummaryNew("webinterface", "Service", "0.1.0",
        Some(<<RTCapabilityInfoNew("webinterface_start", "start"),
               RTCapabilityInfoNew("webinterface_stop", "stop")>>),
        Some(<<"blackboard">>))

\* A skill that provides four capabilities and consumes the blackboard.
PlannerSummary ==
    RTLibrarySummaryNew("planner", "Skill", "0.1.0",
        Some(<<RTCapabilityInfoNew("planner_run", "run"),
               RTCapabilityInfoNew("planner_plan", "plan"),
               RTCapabilityInfoNew("planner_cancel", "cancel"),
               RTCapabilityInfoNew("planner_status", "status")>>),
        Some(<<"blackboard">>))

\* A service whose descriptor declares an entry its image does not export.
SensorSummary ==
    RTLibrarySummaryNew("sensor", "Service", "0.1.0",
        Some(<<RTCapabilityInfoNew("sensor_read", "read")>>),
        None)

\* A service that consumes the sensor and the blackboard and provides nothing.
MonitorSummary ==
    RTLibrarySummaryNew("monitor", "Service", "0.1.0",
        Some(<< >>),
        Some(<<"sensor", "blackboard">>))

\* A service whose image exports stop but no start function.
ActuatorSummary ==
    RTLibrarySummaryNew("actuator", "Service", "0.1.0", Some(<< >>), None)

\* A second build of the blackboard, installed under another path: the same
\* descriptor name, another version.
BlackboardV2Summary == [BlackboardSummary EXCEPT !.version = "0.2.0"]

NoSummary == RTLibrarySummaryNew("", "Skill", "", None, None)

\* A shared object: loadable says whether Library::new accepts the file,
\* summary what the summary symbol and the parse of its text yield ("ok",
\* "missing": no such symbol, "null": a null pointer, "unparsable"),
\* symbols the exported symbols besides summary.
SharedObject(loadable, summary, descriptor, symbols) ==
    [loadable |-> loadable, summary |-> summary, descriptor |-> descriptor,
     symbols |-> symbols]

Range(seq) == {seq[i] : i \in 1..Len(seq)}

\* plugin_dir: <workspace>/plugins/<profile>
plugin_dir == "plugins/debug"

\* create_library_name on linux
create_library_name(pkg_name) == "lib" \o pkg_name \o ".so"

\* PathBuf::join
Join(dir, file) == dir \o "/" \o file

BlackboardV2Path == "/opt/rtime/libblackboard.so"

\* The files the loader can be pointed at.
Disk ==
    [path \in {Join(plugin_dir, create_library_name(n)) :
                 n \in {"blackboard", "webinterface", "planner", "sensor",
                        "monitor", "actuator", "truncated", "stripped",
                        "garbled"}}
              \cup {BlackboardV2Path} |->
        CASE path = Join(plugin_dir, create_library_name("blackboard")) ->
                SharedObject(TRUE, "ok", BlackboardSummary, Range(BlackboardEntries))
          [] path = BlackboardV2Path ->
                SharedObject(TRUE, "ok", BlackboardV2Summary, Range(BlackboardEntries))
          [] path = Join(plugin_dir, create_library_name("webinterface")) ->
                SharedObject(TRUE, "ok", WebinterfaceSummary, {"start", "stop"})
          [] path = Join(plugin_dir, create_library_name("planner")) ->
                SharedObject(TRUE, "ok", PlannerSummary,
                             {"run", "plan", "cancel", "status"})
          [] path = Join(plugin_dir, create_library_name("sensor")) ->
                SharedObject(TRUE, "ok", SensorSummary, {"start", "stop"})
          [] path = Join(plugin_dir, create_library_name("monitor")) ->
                SharedObject(TRUE, "ok", MonitorSummary, {"start"})
          [] path = Join(plugin_dir, create_library_name("actuator")) ->
                SharedObject(TRUE, "ok", ActuatorSummary, {"stop"})
          [] path = Join(plugin_dir, create_library_name("truncated")) ->
                SharedObject(FALSE, "missing", NoSummary, {})
          [] path = Join(plugin_dir, create_library_name("stripped")) ->
                SharedObject(TRUE, "missing", NoSummary, {"start", "stop"})
          [] OTHER ->
                SharedObject(TRUE, "unparsable", NoSummary, {"start", "stop"})]

\* The symbols of all images, for the addresses.
SymbolNames ==
    BlackboardEntries \o <<"run", "plan", "cancel", "status", "read", "summary">>

IndexOf(seq, x) == CHOOSE i \in 1..Len(seq) : seq[i] = x

Paths == <<Join(plugin_dir, create_library_name("blackboard")),
           BlackboardV2Path,
           Join(plugin_dir, create_library_name("webinterface")),
           Join(plugin_dir, create_library_name("planner")),
           Join(plugin_dir, create_library_name("sensor")),
           Join(plugin_dir, create_library_name("monitor")),
           Join(plugin_dir, create_library_name("truncated")),
           Join(plugin_dir, create_library_name("stripped")),
           Join(plugin_dir, create_library_name("garbled")),
           Join(plugin_dir, create_library_name("actuator"))>>

\* Library::get on a symbol the image exports: its address, never null and
\* different for every symbol of every image.
SymbolAddress(path, symbol) ==
    IndexOf(Paths, path) * (Len(SymbolNames) + 1) + IndexOf(SymbolNames, symbol)

\* LibraryConfig::new (the attributes are not modelled)
NoPath == ""

LibraryConfigNew(name, path) == [name |-> name, path |-> path]

\* helper::load_library
load_library(path) ==
    IF path \in DOMAIN Disk /\ Disk[path].loadable
    THEN [ok |-> TRUE, library |-> path]
    ELSE [ok |-> FALSE, library |-> ""]

\* RTLibrary::new: the summary symbol, its text, the parse of the text
RTLibraryNew(library) ==
    IF Disk[library].summary = "ok"
    THEN [ok |-> TRUE, library |-> library, summary |-> Disk[library].descriptor]
    ELSE [ok |-> FALSE, library |-> library, summary |-> NoSummary]

\* RTLibrary::name
RTLibraryName(rtlibrary) == rtlibrary.summary.name

\* An entry of the loader's history: a log line ("warn", "error"), a wiring
\* ("create_caps", with the requires list, how it ended and the table), a
\* lifecycle call on a component ("start", "run", "stop", with the table
\* handed over and the value returned) or a panic.  by is the function that
\* logged or called.
Ev(e, name, requires, out, caps, ret, by) ==
    [e |-> e, name |-> name, requires |-> requires, out |-> out, caps |-> caps,
     ret |-> ret, by |-> by]

Warn(name, by) == Ev("warn", name, << >>, "", << >>, 0, by)

Panic(name, by) == Ev("panic", name, << >>, "", << >>, 0, by)

\* Mutant: a library counts as loaded when its file is, whatever its name.
AlreadyLoaded_ByPath(libs, rtlibrary) ==
    \E k \in 1..Len(libs) : libs[k].library = rtlibrary.library

\* load_libraries: a library of that descriptor name is in the list
AlreadyLoaded(libs, rtlibrary) ==
    \E k \in 1..Len(libs) : RTLibraryName(libs[k]) = RTLibraryName(rtlibrary)

\* load_libraries from the i-th entry of the config on: the libraries and
\* the warnings so far.
RECURSIVE LoadFrom(_, _, _, _)
LoadFrom(cfg, i, libs, log) ==
    IF i > Len(cfg) THEN [libraries |-> libs, log |-> log]
    ELSE
        LET libconfig == cfg[i]
            path == IF libconfig.path # NoPath THEN libconfig.path
                    ELSE Join(plugin_dir, create_library_name(libconfig.name))
            library == load_library(path)
            rtlibrary == RTLibraryNew(library.library)
            skip == LoadFrom(cfg, i + 1, libs,
                             Append(log, Warn(libconfig.name, "load_libraries")))
        IN  IF ~library.ok THEN skip
            ELSE IF ~rtlibrary.ok THEN skip
            ELSE IF AlreadyLoaded(libs, rtlibrary) THEN skip
            ELSE LoadFrom(cfg, i + 1,
                          Append(libs, [library |-> rtlibrary.library,
                                        summary |-> rtlibrary.summary]),
                          log)

load_libraries(cfg) == LoadFrom(cfg, 1, << >>, << >>)

\* Skill::new and Service::new: the requires list of the descriptor, empty
\* when it has none.
ComponentOf(lib) ==
    [type |-> lib.summary.library_type,
     library |-> lib,
     requires |-> IF lib.summary.requires.some THEN lib.summary.requires.list
                  ELSE << >>]

Reverse(seq) == [i \in 1..Len(seq) |-> seq[Len(seq) + 1 - i]]

\* Mutant: the components in the order of the libraries.
ComponentsNew_InLoadOrder(libs) == [i \in 1..Len(libs) |-> ComponentOf(libs[i])]

\* Components::new: the libraries are popped off the end of the list and
\* pushed, so inner holds them last loaded first.
ComponentsNew(libs) == Reverse([i \in 1..Len(libs) |-> ComponentOf(libs[i])])

\* Mutant: an entry that does not resolve yields a null pointer.
get_capability_fn_Null(library, capability_entry) ==
    IF capability_entry \in Disk[library.library].symbols
    THEN [ok |-> TRUE, fn |-> SymbolAddress(library.library, capability_entry)]
    ELSE [ok |-> TRUE, fn |-> NULL]

\* get_capability_fn: the symbol of that name in the image of the library
get_capability_fn(library, capability_entry) ==
    IF capability_entry \in Disk[library.library].symbols
    THEN [ok |-> TRUE, fn |-> SymbolAddress(library.library, capability_entry)]
    ELSE [ok |-> FALSE, fn |-> NULL]

\* create_caps, the loop over the provides list of one required library
RECURSIVE AddProvides(_, _, _, _)
AddProvides(caps, library, provides, i) ==
    IF i > Len(provides) THEN [panicked |-> FALSE, caps |-> caps]
    ELSE
        LET capability_fn == get_capability_fn(library, provides[i].entry)
        IN  IF ~capability_fn.ok THEN [panicked |-> TRUE, caps |-> caps]
            ELSE AddProvides(
                    CapabilitiesAdd(caps,
                        CapabilityNew(provides[i].capability, capability_fn.fn)),
                    library, provides, i + 1)

\* create_caps, the loop over requires: a name no component carries is
\* logged and passed over; a library without a provides list and an entry
\* that does not resolve panic.
RECURSIVE WireFrom(_, _, _, _, _)
WireFrom(requires, components, r, caps, log) ==
    IF r > Len(requires) THEN [panicked |-> FALSE, caps |-> caps, log |-> log]
    ELSE
        LET found == {k \in 1..Len(components) :
                        RTLibraryName(components[k].library) = requires[r]}
            lib == components[CHOOSE k \in found : \A h \in found : k <= h]
            provides == lib.library.summary.provides
            added == AddProvides(caps, lib.library, provides.list, 1)
        IN  IF found = {}
            THEN WireFrom(requires, components, r + 1, caps,
                          Append(log, Warn(requires[r], "create_caps")))
            ELSE IF ~provides.some
            THEN [panicked |-> TRUE, caps |-> caps, log |-> log]
            ELSE IF added.panicked
            THEN [panicked |-> TRUE, caps |-> added.caps, log |-> log]
            ELSE WireFrom(requires, components, r + 1, added.caps, log)

create_caps(requires, components) ==
    WireFrom(requires, components, 1, CapabilitiesNew, << >>)

\* What a call of create_caps leaves in the history: its warnings, then the
\* wiring with the table it returned or the panic that ended it.
WiringOf(requires, wired, by) ==
    wired.log \o
    <<Ev("create_caps", "", requires,
         IF wired.panicked THEN "panicked" ELSE "returned",
         IF wired.panicked THEN << >> ELSE wired.caps, 0, by)>>

\* The values the start or run function of a plugin returns.
Returns == {0, -1}

\* Component::run: the function of that name of the component's library is
\* called with the table; the call is an Err only when the library has no
\* such function.
ComponentRun(component, function) ==
    [ok |-> function \in Disk[component.library.library].symbols]

\* Service::stop: the stop function of the library is called, its result
\* dropped; a library without one is logged.
ServiceStop(service) ==
    IF "stop" \in Disk[service.library.library].symbols
    THEN Ev("stop", RTLibraryName(service.library), << >>, "", << >>, 0, "drop")
    ELSE Warn(RTLibraryName(service.library), "stop")

\* Mutant: the component list is leaked and no destructor runs.
ComponentsDrop_Leaked(components) == << >>

\* Mutant: the components are dropped last to first.
ComponentsDrop_LastFirst(components) ==
    LET services == SelectSeq(components, LAMBDA c : c.type = "Service")
    IN  [i \in 1..Len(services) |-> ServiceStop(services[Len(services) + 1 - i])]

\* Drop of the component list: the components are dropped first to last,
\* and the drop of a Service stops it.
ComponentsDrop(components) ==
    LET services == SelectSeq(components, LAMBDA c : c.type = "Service")
    IN  [i \in 1..Len(services) |-> ServiceStop(services[i])]

(***************************************************************************)
(* The runtime from launch to shutdown                                     *)
(*                                                                         *)
(* main loads the libraries of the config, builds the component list,      *)
(* starts the services one after the other, hands the list to its task     *)
(* and waits for Ctrl+C; the crate's tests build the list and wire a       *)
(* table without starting anything.  A panic unwinds and drops the         *)
(* component list on its way.                                              *)
(***************************************************************************)
\* Entries of a config file.
MaxConfig == 3

\* Explicit run calls on skills.
MaxSkillRuns == 1

ConfigEntries ==
    {LibraryConfigNew(n, NoPath) :
        n \in {"blackboard", "webinterface", "planner", "sensor", "monitor",
               "actuator", "truncated", "stripped", "garbled"}}
    \cup {LibraryConfigNew("blackboard_v2", BlackboardV2Path)}

Configs == UNION {[1..n -> ConfigEntries] : n \in 0..MaxConfig}

\* The requires lists the tests and other callers wire tables for.
RequiresLists ==
    {<< >>, <<"blackboard">>, <<"webinterface">>, <<"sensor">>,
     <<"blackboard", "planner">>, <<"planner", "blackboard">>,
     <<"ghost", "webinterface">>}

\* the store, the threads and the webinterface are not part of the loader's runs
svars == <<scenario, singleton, poisoned, logger, subs, last, tvars, wvars>>

InitLoader ==
    /\ scenario = "loader"
    /\ singleton = NoBlackBoard
    /\ poisoned = FALSE
    /\ logger = FALSE
    /\ subs = << >>
    /\ last = NoObs
    /\ ThreadsIdle
    /\ WebIdle
    /\ config \in Configs
    /\ libraries = << >>
    /\ inner = << >>
    /\ main = "launched"
    /\ visited = 0
    /\ lhist = << >>
    /\ table = << >>
    /\ probe = NoProbe

\* main: load_libraries(&config.libraries)
LoadLibraries ==
    /\ main = "launched"
    /\ LET loaded == load_libraries(config)
       IN  /\ libraries' = loaded.libraries
           /\ lhist' = lhist \o loaded.log
    /\ main' = "loaded"
    /\ UNCHANGED <<svars, config, inner, visited, table, probe>>

\* main: Components::new(libraries)
NewComponents ==
    /\ main = "loaded"
    /\ inner' = ComponentsNew(libraries)
    /\ main' = "built"
    /\ UNCHANGED <<svars, config, libraries, visited, lhist, table, probe>>

ComponentName(component) == RTLibraryName(component.library)

\* start_services, one turn of its loop: inner is walked from its end; a
\* Service is wired and its start function called, the Err of a missing
\* start function is logged and unwrapped, the value start returns is
\* dropped.
StartService ==
    /\ main \in {"built", "starting"}
    /\ visited < Len(inner)
    /\ LET component == inner[Len(inner) - visited]
           name == ComponentName(component)
           wired == create_caps(component.requires, inner)
           wiring == WiringOf(component.requires, wired, "start_services")
       IN  IF component.type # "Service"
           THEN /\ lhist' = lhist
                /\ visited' = visited + 1
                /\ main' = "starting"
           ELSE IF wired.panicked
           THEN /\ lhist' = lhist \o wiring \o <<Panic(name, "create_caps")>>
                               \o ComponentsDrop(inner)
                /\ visited' = visited
                /\ main' = "panicked"
           ELSE IF ~ComponentRun(component, "start").ok
           THEN /\ lhist' = lhist \o wiring
                               \o <<Warn(name, "start_services"),
                                    Panic(name, "start_services")>>
                               \o ComponentsDrop(inner)
                /\ visited' = visited
                /\ main' = "panicked"
           ELSE \E ret \in Returns :
                /\ lhist' = lhist \o wiring
                               \o <<Ev("start", name, component.requires, "",
                                       wired.caps, ret, "start_services")>>
                /\ visited' = visited + 1
                /\ main' = "starting"
    /\ UNCHANGED <<svars, config, libraries, inner, table, probe>>

\* start_services returns when the loop is over.
StartServicesReturns ==
    /\ main \in {"built", "starting"}
    /\ visited = Len(inner)
    /\ main' = "running"
    /\ UNCHANGED <<svars, config, libraries, inner, visited, lhist, table, probe>>

\* main's task: it owns the component list, wires the blackboard and
\* loops; without blackboard_get_string it logs and ends, and with it ends
\* main, which drops the list.  A panic of the task drops the list too.
SpawnTask ==
    /\ main = "running"
    /\ LET requires == <<"blackboard">>
           wired == create_caps(requires, inner)
           wiring == WiringOf(requires, wired, "main")
       IN  IF wired.panicked
           THEN /\ lhist' = lhist \o wiring \o <<Panic("", "create_caps")>>
                               \o ComponentsDrop(inner)
                /\ main' = "down"
           ELSE IF ~CapabilitiesGet(wired.caps, "blackboard_get_string").found
           THEN /\ lhist' = lhist \o wiring
                               \o <<Ev("error", "blackboard", << >>, "", << >>,
                                       0, "main")>>
                               \o ComponentsDrop(inner)
                /\ main' = "down"
           ELSE /\ lhist' = lhist \o wiring
                /\ main' = "serving"
    /\ UNCHANGED <<svars, config, libraries, inner, visited, table, probe>>

SkillRuns == Cardinality({i \in 1..Len(lhist) : lhist[i].e = "run"})

\* Skill::run, called by whoever dispatches work to the skill with the
\* table wired for it.
RunSkill ==
    \E k \in 1..Len(inner) :
        /\ main = "serving"
        /\ inner[k].type = "Skill"
        /\ SkillRuns < MaxSkillRuns
        /\ LET skill == inner[k]
               wired == create_caps(skill.requires, inner)
               wiring == WiringOf(skill.requires, wired, "run")
           IN  IF wired.panicked
               THEN /\ lhist' = lhist \o wiring
                                   \o <<Panic(ComponentName(skill), "create_caps")>>
                                   \o ComponentsDrop(inner)
                    /\ main' = "panicked"
               ELSE \E ret \in Returns :
                    /\ lhist' = lhist \o wiring
                            \o <<Ev("run", ComponentName(skill), skill.requires,
                                    IF ComponentRun(skill, "run").ok
                                    THEN "called" ELSE "err",
                                    wired.caps, ret, "run")>>
                    /\ main' = main
        /\ UNCHANGED <<svars, config, libraries, inner, visited, table, probe>>

\* Requests served by the webinterface.
MaxRequests == 1

Requests == Cardinality({i \in 1..Len(lhist) : lhist[i].e = "request"})

\* The subscriptions the runtime has registered with the blackboard: main
\* and its task register none.
RuntimeSubscriptions(log) ==
    {i \in 1..Len(log) : log[i].e = "subscribe" /\ log[i].by = "main"}

\* The store of the loaded blackboard runs when its start has returned 0.
BlackboardRuns(log) ==
    \E i \in 1..Len(log) :
        log[i].e = "start" /\ log[i].name = "blackboard" /\ log[i].ret = 0

\* webinterface start_project: the handler looks blackboard_set_string up in
\* the table the server was started with and sets the key "start_project";
\* the value set returns is dropped and the response is the same either
\* way.  out tells whether the set found a subscriber of the runtime to
\* call.
start_project(app_caps, log) ==
    LET f == CapabilitiesGet(app_caps, "blackboard_set_string")
        ret == IF BlackboardRuns(log) THEN 0 ELSE -1
    IN  <<Ev("request", "startproject", << >>, "", app_caps, 0, "webinterface")>>
        \o (IF f.found
            THEN <<Ev("set", "start_project", << >>,
                      IF ret = 0 /\ RuntimeSubscriptions(log) # {}
                      THEN "notified" ELSE "unobserved",
                      << >>, ret, "start_project")>>
            ELSE << >>)

\* A GET /startproject reaches the server a started webinterface runs.
StartProjectRequest ==
    \E i \in 1..Len(lhist) :
        /\ main = "serving"
        /\ Requests < MaxRequests
        /\ lhist[i].e = "start" /\ lhist[i].name = "webinterface"
        /\ lhist[i].ret = 0
        /\ lhist' = lhist \o start_project(lhist[i].caps, lhist)
        /\ UNCHANGED <<svars, config, libraries, inner, main, visited, table,
                       probe>>

\* Ctrl+C: main returns, the runtime drops the task and with it the list.
CtrlC ==
    /\ main = "serving"
    /\ lhist' = lhist \o ComponentsDrop(inner)
    /\ main' = "down"
    /\ UNCHANGED <<svars, config, libraries, inner, visited, table, probe>>

\* test_create_caps: a table is wired from the component list as built.
TestCreateCaps ==
    \E requires \in RequiresLists :
        /\ main = "built"
        /\ LET wired == create_caps(requires, inner)
               wiring == WiringOf(requires, wired, "test")
           IN  IF wired.panicked
               THEN /\ lhist' = lhist \o wiring \o <<Panic("", "create_caps")>>
                                   \o ComponentsDrop(inner)
                    /\ main' = "panicked"
               ELSE /\ lhist' = lhist \o wiring
                    /\ main' = "wired"
        /\ UNCHANGED <<svars, config, libraries, inner, visited, table, probe>>

\* A test ends: its component list goes out of scope.
TestEnds ==
    /\ main \in {"built", "wired"}
    /\ lhist' = lhist \o ComponentsDrop(inner)
    /\ main' = "down"
    /\ UNCHANGED <<svars, config, libraries, inner, visited, table, probe>>

NextLoader ==
    \/ LoadLibraries
    \/ NewComponents
    \/ StartService
    \/ StartServicesReturns
    \/ SpawnTask
    \/ RunSkill
    \/ StartProjectRequest
    \/ CtrlC
    \/ TestCreateCaps
    \/ TestEnds

SpecLoader == InitLoader /\ [][NextLoader]_vars

(***************************************************************************)
(* A capability table under test                                           *)
(*                                                                         *)
(* A caller builds capabilities and a table, adds to the table and looks   *)
(* names up, as the tests of the interfaces crate do.  probe keeps the     *)
(* last call, its result and the add calls made so far.                    *)
(***************************************************************************)
\* Capabilities the caller adds once the table has been filled.
MaxTableAdds == 2

\* A name that fills the buffer but for the NUL, and one that fills it.
Name63 == "abcdefghijklmnopqrstuvwxyzabcdefghijklmnopqrstuvwxyzabcdefghijk"

Name64 == Name63 \o "l"

CapNames == {"a", "A", Name63, Name64}

\* Addresses of functions.
CapFunctions == {1, 2}

\* The n-th capability a caller fills the table with.
Filler(n) == CapabilityNew("f" \o ToString(n), 100 + n)

InitCaps ==
    /\ scenario = "capabilities"
    /\ singleton = NoBlackBoard
    /\ poisoned = FALSE
    /\ logger = FALSE
    /\ subs = << >>
    /\ last = NoObs
    /\ ThreadsIdle
    /\ WebIdle
    /\ config = << >>
    /\ libraries = << >>
    /\ inner = << >>
    /\ main = "off"
    /\ visited = 0
    /\ lhist = << >>
    /\ table = CapabilitiesNew
    /\ probe = NoProbe

\* The add call in the history of the probe: the name and the pointer
\* given, and whether the table had room.
Added(name, function) ==
    Append(probe.added, [name |-> name, function |-> function,
                         kept |-> Len(table) < CAPABILITY_TABLE_LEN])

\* Capabilities::add of one more of the filling capabilities
FillCapability ==
    /\ probe.adds = 0
    /\ Len(table) < CAPABILITY_TABLE_LEN
    /\ LET cap == Filler(Len(table) + 1)
       IN  /\ table' = CapabilitiesAdd(table, cap)
           /\ probe' = [NoProbe EXCEPT !.op = "add", !.name = cap.name,
                                       !.function = cap.function,
                                       !.before = table,
                                       !.added = Added(cap.name, cap.function)]
    /\ UNCHANGED <<svars, config, libraries, inner, main, visited, lhist>>

\* Capabilities::add(Capability::new(name, function))
AddCapability ==
    \E name \in CapNames, function \in CapFunctions :
        /\ probe.adds < MaxTableAdds
        /\ table' = CapabilitiesAdd(table, CapabilityNew(name, function))
        /\ probe' = [NoProbe EXCEPT !.op = "add", !.name = name,
                                    !.function = function,
                                    !.before = table,
                                    !.added = Added(name, function),
                                    !.adds = probe.adds + 1]
        /\ UNCHANGED <<svars, config, libraries, inner, main, visited, lhist>>

\* Capabilities::get(name), and Capability::get on what it returns
GetCapability ==
    \E name \in CapNames \cup {"f1", "b"} :
        /\ probe.op # "none"
        /\ LET cap == CapabilitiesGet(table, name)
           IN  probe' = [NoProbe EXCEPT !.op = "get", !.name = name,
                                        !.before = table,
                                        !.found = cap.found,
                                        !.got = cap.function,
                                        !.added = probe.added,
                                        !.adds = probe.adds]
        /\ UNCHANGED <<svars, config, libraries, inner, main, visited, lhist, table>>

\* Capability::new(name, function), then name() and get() on it
NewCapability ==
    \E name \in CapNames, function \in CapFunctions :
        /\ LET cap == CapabilityNew(name, function)
           IN  probe' = [NoProbe EXCEPT !.op = "new", !.name = name,
                                        !.function = function,
                                        !.before = table,
                                        !.found = CapabilityGet(cap).ok,
                                        !.got = CapabilityGet(cap).function,
                                        !.named = CapabilityName(cap),
                                        !.added = probe.added,
                                        !.adds = probe.adds]
        /\ UNCHANGED <<svars, config, libraries, inner, main, visited, lhist, table>>

NextCaps ==
    \/ FillCapability
    \/ AddCapability
    \/ GetCapability
    \/ NewCapability

SpecCaps == InitCaps /\ [][NextCaps]_vars

(***************************************************************************)
(* The webinterface plugin: SERVER_STATE and its start and stop            *)
(*                                                                         *)
(* The server state is an Option behind a mutex: None, or the runtime, the *)
(* handle and the task of a bound server.  Whether a runtime can be built  *)
(* and the address bound is decided by the machine at the time of the      *)
(* call; the server's task ends with a panic when the server fails.        *)
(***************************************************************************)
\* Config::default
ConfigDefault == [hostname |-> "127.0.0.1", port |-> 8080]

\* Config::new: the entries hostname (a string) and port (an integer, cast
\* to u16) replace the defaults; other entries and other kinds are skipped.
RECURSIVE ConfigFrom(_, _, _)
ConfigFrom(key_values, i, cfg) ==
    IF i > Len(key_values) THEN cfg
    ELSE LET entry == key_values[i]
         IN  ConfigFrom(key_values, i + 1,
                IF entry.key = "hostname" /\ entry.shape = "str"
                THEN [cfg EXCEPT !.hostname = entry.v]
                ELSE IF entry.key = "port" /\ entry.shape = "int"
                THEN [cfg EXCEPT !.port = entry.v % (2 ^ 16)]
                ELSE cfg)

ConfigNew(key_values) == ConfigFrom(key_values, 1, ConfigDefault)

\* The attribute strings a caller passes to the webinterface.
WebAttributes ==
    {NullAttributes, BadAttributes, Attributes(<< >>),
     Attributes(<<[key |-> "hostname", shape |-> "str", v |-> "0.0.0.0"],
                  [key |-> "port", shape |-> "int", v |-> 2 ^ 16 + 9090]>>),
     Attributes(<<[key |-> "port", shape |-> "str", v |-> "9090"]>>)}

\* What the machine answers a start: a runtime and the address, no
\* runtime, or a runtime and no address (in use, not permitted).
Machine == {"ok", "no_runtime", "bind_error"}

\* Mutant: start_server without the check for a server that runs.
webinterface_start_server_Unchecked(state, attributes, machine) ==
    LET cfg == IF attributes.given /\ attributes.well_formed
               THEN ConfigNew(attributes.entries)
               ELSE ConfigDefault
    IN  IF machine # "ok" THEN [ok |-> FALSE, state |-> state]
        ELSE [ok |-> TRUE,
              state |-> [some |-> TRUE, task |-> "serving",
                         hostname |-> cfg.hostname, port |-> cfg.port]]

\* start_server: Err when a server state is there; attributes that are
\* null or do not parse are logged and give the default config; Err when
\* the runtime cannot be built or the address not bound; else the server
\* runs in a task and the state is Some.
webinterface_start_server(state, attributes, machine) ==
    LET cfg == IF attributes.given /\ attributes.well_formed
               THEN ConfigNew(attributes.entries)
               ELSE ConfigDefault
    IN  IF state.some THEN [ok |-> FALSE, state |-> state]
        ELSE IF machine # "ok" THEN [ok |-> FALSE, state |-> state]
        ELSE [ok |-> TRUE,
              state |-> [some |-> TRUE, task |-> "serving",
                         hostname |-> cfg.hostname, port |-> cfg.port]]

\* stop_server: Err when there is no server state; else the state is
\* taken, the server told to stop and its task joined: Err when the task
\* had panicked.
webinterface_stop_server(state) ==
    IF ~state.some THEN [ok |-> FALSE, state |-> state]
    ELSE [ok |-> state.task = "serving", state |-> NoServer]

\* The observation of a call: the function and the one called before it,
\* the attributes and the machine's answer, the value returned (a Result,
\* or the i32 of an exported function), and the server state before and
\* after.
WebCall(op, attributes, machine, status, ret, was, now) ==
    [op |-> op, prev |-> wlast.op, attributes |-> attributes,
     machine |-> machine, status |-> status, ret |-> ret, was |-> was,
     now |-> now]

\* The process is alive: no exported function has panicked.
WebAlive == wlast.status = "returned"

\* everything but the webinterface
nonweb == <<scenario, singleton, poisoned, logger, subs, last, tvars,
            config, libraries, inner, main, visited, lhist, table, probe>>

InitWeb ==
    /\ scenario = "webinterface"
    /\ singleton = NoBlackBoard
    /\ poisoned = FALSE
    /\ logger = FALSE
    /\ subs = << >>
    /\ last = NoObs
    /\ ThreadsIdle
    /\ config = << >>
    /\ libraries = << >>
    /\ inner = << >>
    /\ main = "off"
    /\ visited = 0
    /\ lhist = << >>
    /\ table = << >>
    /\ probe = NoProbe
    /\ SERVER_STATE = NoServer
    /\ wlogger = FALSE
    /\ wlast = NoWebCall

\* start_server called as the tests of the crate call it
WebStartServer ==
    \E attributes \in WebAttributes, machine \in Machine :
        LET r == webinterface_start_server(SERVER_STATE, attributes, machine)
        IN  /\ WebAlive
            /\ SERVER_STATE' = r.state
            /\ wlast' = WebCall("start_server", attributes, machine,
                                  "returned", IF r.ok THEN 0 ELSE -1,
                                  SERVER_STATE, r.state)
            /\ UNCHANGED <<nonweb, wlogger>>

\* start, the exported function: env_logger::init panics when the logger
\* of the plugin is installed already; else start_server decides.
WebStart ==
    \E attributes \in WebAttributes, machine \in Machine :
        LET r == webinterface_start_server(SERVER_STATE, attributes, machine)
        IN  /\ WebAlive
            /\ IF wlogger
               THEN /\ wlast' = WebCall("start", attributes, machine,
                                          "panicked", 0, SERVER_STATE,
                                          SERVER_STATE)
                    /\ UNCHANGED <<SERVER_STATE, wlogger>>
               ELSE /\ wlogger' = TRUE
                    /\ SERVER_STATE' = r.state
                    /\ wlast' = WebCall("start", attributes, machine,
                                          "returned", IF r.ok THEN 0 ELSE -1,
                                          SERVER_STATE, r.state)
            /\ UNCHANGED nonweb

\* stop, the exported function
WebStop ==
    LET r == webinterface_stop_server(SERVER_STATE)
    IN  /\ WebAlive
        /\ SERVER_STATE' = r.state
        /\ wlast' = WebCall("stop", NullAttributes, "ok", "returned",
                              IF r.ok THEN 0 ELSE -1, SERVER_STATE, r.state)
        /\ UNCHANGED <<nonweb, wlogger>>

\* The server ends with an error: server.await.unwrap() panics in the task.
ServerTaskPanics ==
    /\ WebAlive
    /\ SERVER_STATE.some /\ SERVER_STATE.task = "serving"
    /\ SERVER_STATE' = [SERVER_STATE EXCEPT !.task = "panicked"]
    /\ UNCHANGED <<nonweb, wlogger, wlast>>

NextWeb ==
    \/ WebStartServer
    \/ WebStart
    \/ WebStop
    \/ ServerTaskPanics

SpecWeb == InitWeb /\ [][NextWeb]_vars

(***************************************************************************)
(* Vocabulary of the claims                                                *)
(***************************************************************************)
\* The store serves calls: it is started and its lock is not poisoned.
Running == singleton.some /\ ~poisoned

Succeeded(l) == l.status = "returned" /\ l.ret = 0

Failed(l) == l.status = "returned" /\ l.ret < 0

\* The live subscriptions on a key, in registration order.
SubsOn(h, key) == SelectSeq(h, LAMBDA x : x.key = key)

FunctionsCalled(calls) == [i \in 1..Len(calls) |-> calls[i].function]

\* Among calls, exactly one is made for the subscription x, and it calls the
\* callback x was subscribed with.
InvokedOnce(calls, x) ==
    LET mine == {j \in 1..Len(calls) :
                    calls[j].listener = ListenerKey(x.key, x.comp)}
    IN  /\ Cardinality(mine) = 1
        /\ \A j \in mine : calls[j].function = x.cb

\* The calls one set on key makes when every live subscription on it is
\* notified once and nothing else is.
EachNotifiedOnce(calls, h, key) ==
    /\ Len(calls) = Len(SubsOn(h, key))
    /\ \A i \in 1..Len(SubsOn(h, key)) : InvokedOnce(calls, SubsOn(h, key)[i])

\* What get_K(key) into a fresh output location does in a store bb.
GetYields(pois, bb, kind, key, v) ==
    IF kind = "String"
    THEN /\ get_string_intern(pois, bb, key, NullOut).r.status = "returned"
         /\ get_string_intern(pois, bb, key, NullOut).r.ret = Len(v) + 1
         /\ \A f \in Fills :
              LET g == get_string_intern(pois, bb, key, [i \in 1..(Len(v) + 1) |-> f])
              IN  /\ g.r.status = "returned"
                  /\ g.r.ret = Len(v) + 1
                  /\ SubSeq(g.out, 1, Len(v)) = v
    ELSE \A f \in Fills :
              LET g == get_scalar_intern(pois, bb, kind, key, <<f>>)
              IN  /\ Succeeded(g.r)
                  /\ g.out = v

GetFails(pois, bb, kind, key) ==
    IF kind = "String"
    THEN /\ Failed(get_string_intern(pois, bb, key, NullOut).r)
         /\ \A f \in Fills :
              LET g == get_string_intern(pois, bb, key, <<f>>)
              IN  Failed(g.r) /\ g.out = <<f>>
    ELSE \A f \in Fills :
              LET g == get_scalar_intern(pois, bb, kind, key, <<f>>)
              IN  Failed(g.r) /\ g.out = <<f>>

(***************************************************************************)
(* Claims                                                                  *)
(***************************************************************************)
\* C1: in a running blackboard, for every kind K, key k and value v, after
\* any sequence of calls: when set_K(k, v) has returned 0, a get_K(k) issued
\* next returns success (0, or the length with its NUL for a string) and the
\* output location holds v (for a string, the bytes of v).
C1_SetThenGet ==
    (last.op = "set" /\ Succeeded(last))
        => GetYields(poisoned, singleton, last.kind, last.key, last.val)

\* C1 witness: a string was set over an entry of another kind.
C1_Witness ==
    /\ last.op = "set" /\ Succeeded(last)
    /\ last.kind = "String" /\ last.val = <<104, 105>>
    /\ last.old.kind = "Int"

\* C2: each live subscriber's callback is invoked exactly once by every set
\* on its key that returns 0, and no callback is invoked by a set that
\* fails, by a set on another key or by any other call.
C2_NotifiedIffSet ==
    IF last.op = "set" /\ Succeeded(last)
    THEN EachNotifiedOnce(last.calls, subs, last.key)
    ELSE last.status = "returned" => last.calls = << >>

\* C3: a start on a stopped store with attributes that fail to parse returns
\* failure and leaves the store stopped: the other calls then fail as not
\* running and a start with null attributes succeeds.
C3_FailedStartLeavesStopped ==
    [][(/\ ~singleton.some /\ ~poisoned
        /\ last'.op = "start" /\ last'.attrs = "bad"
        /\ last'.status = "returned")
       => /\ Failed(last')
          /\ ~singleton'.some
          /\ Failed(size_intern(poisoned', singleton'))
          /\ Succeeded(start_server(poisoned', singleton', NullAttributes))]_vars

\* C4: for a stored string V, get_string(k, null) returns len(V)+1, and
\* get_string(k, buf) with a buffer of len(V)+1 bytes returns the same and
\* leaves buf holding the bytes of V followed by a NUL byte, whatever the
\* buffer held before.
C4_StringReadSizing ==
    (/\ last.op = "get" /\ last.kind = "String" /\ Running
     /\ EntryAt(singleton, last.key).kind = "String")
        => LET V == singleton.data[last.key].v
           IN  /\ last.status = "returned"
               /\ last.ret = Len(V) + 1
               /\ last.out0 # NullOut => last.out = V \o <<0>>

\* C5: once unsubscribe(k, c) has returned and for as long as (k, c) is not
\* subscribed again, no set on k makes a call for the listener of (k, c).
C5_UnsubscribedNotInvoked ==
    last.op = "set"
        => \A p \in ScPairs(scenario) :
              (p[1] = last.key /\ ~IsSubscribed(subs, p[1], p[2]))
                 => \A j \in 1..Len(last.calls) :
                       last.calls[j].listener # ListenerKey(p[1], p[2])

\* C5 witness: a set on "a" notified a subscriber while ("a", "c") is
\* unsubscribed, its capability still in the listener table.
C5_Witness ==
    /\ last.op = "set" /\ Succeeded(last) /\ last.key = "a"
    /\ Len(last.calls) = 1
    /\ ~IsSubscribed(subs, "a", "c")
    /\ CapabilitiesGet(singleton.listener, ListenerKey("a", "c")).found

\* C6: a subscribe of a pair that is already subscribed returns 0 and
\* changes nothing, and a set on the key that then succeeds invokes that
\* subscriber's callback exactly once.
C6_DuplicateSubscribeIsNoOp ==
    [][(/\ last'.op = "subscribe" /\ last'.cb # NULL /\ Running
        /\ IsSubscribed(subs, last'.key, last'.comp))
       => /\ Succeeded(last')
          /\ singleton' = singleton
          /\ \A v \in ScValues(scenario, "Int") :
                LET s == BlackBoardDataSet(singleton', last'.key, "Int", v)
                IN  ~s.panicked =>
                      \A i \in 1..Len(subs') :
                         (subs'[i].key = last'.key /\ subs'[i].comp = last'.comp)
                            => InvokedOnce(s.calls, subs'[i])]_vars

\* C7: on a running store a get_K(k) of an absent key, or of a key that
\* holds another kind, returns a negative value, leaves the output location
\* as it was and changes neither the entries nor the subscribers.
C7_GetOfAbsentOrOtherKindFails ==
    [][(/\ last'.op = "get" /\ Running
        /\ last'.key # NullStr /\ last'.out0 # NullOut
        /\ EntryAt(singleton, last'.key).kind # last'.kind)
       => /\ Failed(last')
          /\ last'.out = last'.out0
          /\ last'.calls = << >>
          /\ singleton' = singleton
          /\ subs' = subs]_vars

\* C7 witness: get_int of a key that holds a string failed.
C7_Witness ==
    /\ last.op = "get" /\ last.kind = "Int" /\ Failed(last) /\ Running
    /\ last.out0 # NullOut
    /\ EntryAt(singleton, last.key).kind = "String"

\* C8: a set_K(k, v2) that returns 0 on a key that already holds a value, of
\* kind K or of another kind, replaces value and kind: get_K(k) then yields
\* v2, get_J(k) fails for every other kind J, and the keys of the store, so
\* its size, are the same as before.
C8_OverwriteReplaces ==
    [][(/\ last'.op = "set" /\ Succeeded(last') /\ Running
        /\ last'.key \in DOMAIN singleton.data)
       => /\ GetYields(poisoned', singleton', last'.kind, last'.key, last'.val)
          /\ \A J \in Kinds \ {last'.kind} :
                GetFails(poisoned', singleton', J, last'.key)
          /\ DOMAIN singleton'.data = DOMAIN singleton.data
          /\ size_intern(poisoned', singleton').ret
                = size_intern(poisoned, singleton).ret]_vars

\* C8 witness: a bool was set over a double while another key is stored.
C8_Witness ==
    /\ last.op = "set" /\ Succeeded(last)
    /\ last.kind = "Bool" /\ last.old.kind = "Double"
    /\ Cardinality(DOMAIN singleton.data) = 2

\* C9: reset on a running store returns 0 and leaves size() = 0, every get
\* failing, and keeps every subscriber: a set on a subscribed key after the
\* reset that succeeds invokes each subscriber's callback exactly once.
C9_ResetKeepsSubscribers ==
    [][(last'.op = "reset" /\ Running)
       => /\ Succeeded(last')
          /\ Succeeded(size_intern(poisoned', singleton'))
          /\ \A k \in ScKeys(scenario), K \in Kinds :
                GetFails(poisoned', singleton', K, k)
          /\ subs' = subs
          /\ \A k \in ScKeys(scenario), v \in ScValues(scenario, "Int") :
                LET s == BlackBoardDataSet(singleton', k, "Int", v)
                IN  ~s.panicked => EachNotifiedOnce(s.calls, subs', k)]_vars

\* C10: when several components are subscribed to one key, a set on it that
\* returns 0 invokes all of their callbacks, in the order of registration,
\* each after the entry has been updated.
C10_FanOutInRegistrationOrder ==
    (/\ last.op = "set" /\ Succeeded(last)
     /\ Len(SubsOn(subs, last.key)) >= 2)
        => /\ FunctionsCalled(last.calls)
                = [i \in 1..Len(SubsOn(subs, last.key)) |->
                        SubsOn(subs, last.key)[i].cb]
           /\ \A j \in 1..Len(last.calls) :
                 last.calls[j].seen = [kind |-> last.kind, v |-> last.val]

\* Among calls, exactly one is made for the subscription x, and it passes the
\* key that was set and the user_data x was subscribed with.
NotifiedWith(calls, x, key) ==
    LET mine == {j \in 1..Len(calls) :
                    calls[j].listener = ListenerKey(x.key, x.comp)}
    IN  /\ Cardinality(mine) = 1
        /\ \A j \in mine : calls[j].key = key /\ calls[j].user_data = x.ud

\* C11: every set that returns 0 makes one call per live subscriber of its
\* key, no other call, and each call passes the key that was set and exactly
\* the user_data given when that (key, component) subscribed, null when null
\* was given.
C11_NotifiedWithKeyAndUserData ==
    (last.op = "set" /\ Succeeded(last))
        => /\ Len(last.calls) = Len(SubsOn(subs, last.key))
           /\ \A i \in 1..Len(SubsOn(subs, last.key)) :
                 NotifiedWith(last.calls, SubsOn(subs, last.key)[i], last.key)

\* A store that holds no subscriber: no set on it calls anything.
NoSubscriber(bb) ==
    /\ bb.key_to_listener = EmptyMap
    /\ bb.user_data = EmptyMap
    /\ bb.listener = CapabilitiesNew
    /\ \A k \in ScKeys(scenario), v \in ScValues(scenario, "Int") :
          BlackBoardDataSet(bb, k, "Int", v).calls = << >>

C13_StoppedStoreRejects ==
    [][(/\ ~singleton.some /\ ~poisoned
        /\ last'.op \notin {"start", "stop"})
       => /\ Failed(last')
          /\ last'.calls = << >>
          /\ last'.out = last'.out0
          /\ singleton' = NoBlackBoard
          /\ subs' = << >>]_vars

\* C13 witness: after a start and a stop, a set with a key was rejected.
C13_Witness ==
    /\ last.op = "set" /\ Failed(last) /\ last.key # NullStr
    /\ ~singleton.some /\ ~poisoned /\ logger

\* C14: a start on a running store returns failure and leaves the entries
\* and the subscribers as they were; starts are serialised by the lock, so
\* of several starts on a stopped store the first, given attributes that
\* parse, returns 0 and each later one meets a running store and fails.
C14_StartOnRunningFails ==
    [][(last'.op = "start" /\ ~poisoned)
       => IF singleton.some
          THEN /\ Failed(last')
               /\ singleton' = singleton
               /\ subs' = subs
          ELSE last'.attrs # "bad" => Succeeded(last')]_vars

\* The kinds a scalar of a YAML shape may discriminate to.
KindsOfShape(shape) ==
    CASE shape = "str"   -> {"String"}
      [] shape = "int"   -> {"Int"}
      [] shape = "float" -> {"Float", "Double"}
      [] shape = "bool"  -> {"Bool"}

\* The entry of a list that decides what its key holds: the last one.
LastEntryOf(entries, key) ==
    LET at == {i \in 1..Len(entries) : entries[i].key = key}
    IN  entries[CHOOSE i \in at : \A j \in at : j <= i]

\* C15: after a start that returned 0, with a parsed attribute list size()
\* is the number of distinct keys of the list and each key reads back, by
\* the getter of a kind of its scalar, the value of its entry; with null
\* attributes size() is 0.
C15_StartInsertsAttributes ==
    (last.op = "start" /\ Succeeded(last) /\ ~poisoned)
        => LET keys == {last.entries[i].key : i \in 1..Len(last.entries)}
           IN  /\ size_intern(poisoned, singleton).status = "returned"
               /\ size_intern(poisoned, singleton).ret = Cardinality(keys)
               /\ \A key \in keys :
                     LET e == LastEntryOf(last.entries, key)
                     IN  \E K \in KindsOfShape(e.shape) :
                            GetYields(poisoned, singleton, K, key, e.v)

\* positions of the history with an event of kind e
EventsOf(e) == {i \in 1..Len(events) : events[i].e = e}

\* the last store made before position j of the history
StoreBefore(j) ==
    CHOOSE i \in EventsOf("stored") :
        /\ i < j
        /\ \A h \in EventsOf("stored") : h < j => h <= i

\* C16: with threads setting one key concurrently, every callback call is
\* made by the thread of the latest store and sees exactly the value of that
\* store; all callbacks of a set are called before the next store is made,
\* so callbacks come in the order of the stores; and when all calls have
\* returned the entry holds the value the last callback call saw.
C16_SetsTotallyOrdered ==
    /\ \A j \in EventsOf("called") :
          /\ \E i \in EventsOf("stored") : i < j
          /\ events[StoreBefore(j)].t = events[j].t
          /\ events[j].seen = [kind |-> "Int", v |-> events[StoreBefore(j)].v]
    /\ \A j \in EventsOf("stored") :
          (\E i \in EventsOf("stored") : i < j)
             => FunctionsCalled(
                    SelectSeq(SubSeq(events, StoreBefore(j), j),
                              LAMBDA x : x.e = "called"))
                  = [i \in 1..Len(SubsOn(subs, "a")) |-> SubsOn(subs, "a")[i].cb]
    /\ (EventsOf("called") # {} /\ \A t \in Threads : pc[t] = "idle")
          => LET j == CHOOSE x \in EventsOf("called") :
                         \A y \in EventsOf("called") : y <= x
             IN  singleton.data["a"] = events[j].seen

\* C16 witness: both threads have set the key, t2 after t1, every callback
\* was called and all calls have returned.
C16_Witness ==
    /\ \A t \in Threads : pc[t] = "idle"
    /\ Cardinality(EventsOf("called")) = 4
    /\ \E i, j \in EventsOf("stored") :
          i < j /\ events[i].t = "t1" /\ events[j].t = "t2"
    /\ singleton.data["a"].v = ThreadValue("t2")

\* A thread is inside a callback it called.
InCallback(t) == pc[t] \in {"callback", "relock", "deadlocked"}

\* A thread whose callback called the blackboard, and a thread that died.
Stuck(t) == pc[t] \in {"relock", "deadlocked", "dead"}

C18_NullCallbackRejected ==
    [][(/\ last'.op = "subscribe" /\ last'.cb = NULL /\ Running)
       => /\ Failed(last')
          /\ singleton' = singleton
          /\ subs' = subs]_vars

\* The callback calls a set of an integer on key makes in store bb.
CallsOnSet(bb, key) ==
    BlackBoardDataSet(bb, key, "Int", <<7>>).calls

\* C19: an unsubscribe(k, c) on a running store returns 0 and leaves the
\* entries as they were; what a set on any key calls afterwards is what it
\* called before, in the same order, with the same callback and user_data,
\* less the call for (k, c); and when (k, c) is not subscribed the store is
\* unchanged.
C19_UnsubscribeRemovesOnlyThePair ==
    [][(last'.op = "unsubscribe" /\ Running)
       => /\ Succeeded(last')
          /\ singleton'.data = singleton.data
          /\ \A key \in ScKeys(scenario) :
                ~BlackBoardDataSet(singleton, key, "Int", <<7>>).panicked
                   => CallsOnSet(singleton', key)
                        = SelectSeq(CallsOnSet(singleton, key),
                                    LAMBDA x : ~(/\ key = last'.key
                                                 /\ x.listener =
                                                      ListenerKey(last'.key,
                                                                  last'.comp)))
          /\ ~IsSubscribed(subs, last'.key, last'.comp)
                => singleton' = singleton /\ subs' = subs]_vars

\* json_type_of(T)
JsonTypeOfKind(kind) ==
    CASE kind = "String" -> "string"
      [] kind = "Int"    -> "integer"
      [] kind \in {"Float", "Double"} -> "number"
      [] kind = "Bool"   -> "boolean"

\* the JSON value that equals a stored value
JsonValueEqualTo(e) ==
    [json |-> CASE e.kind = "String" -> "string"
                [] e.kind = "Bool"   -> "boolean"
                [] OTHER             -> "number",
     v |-> e.v]

\* C20: as_json_schema on a running store returns the length of the document
\* with its NUL, the same without and with a buffer; the buffer then holds
\* the document followed by a NUL, and its properties have one member per
\* stored key and no other, each with the type of the kind stored and a
\* value equal to the value stored.
C20_SchemaRendersEveryEntry ==
    (last.op = "as_json_schema" /\ Running)
        => /\ last.status = "returned"
           /\ last.ret = Len(JsonSchema(singleton.data)) + 1
           /\ last.out0.null => last.out = last.out0
           /\ ~last.out0.null
                => /\ last.out.nul
                   /\ Len(last.out.text) + 1 = last.ret
                   /\ DOMAIN last.out.properties = DOMAIN singleton.data
                   /\ \A k \in DOMAIN singleton.data :
                         /\ last.out.properties[k].type
                               = JsonTypeOfKind(singleton.data[k].kind)
                         /\ last.out.properties[k].value
                               = JsonValueEqualTo(singleton.data[k])

(***************************************************************************)
(* Vocabulary of the claims on the loader                                  *)
(***************************************************************************)
IsPrefix(s, t) == Len(s) <= Len(t) /\ \A i \in 1..Len(s) : s[i] = t[i]

\* The entries of the history of one kind, in order.
EventsOfKind(e) == SelectSeq(lhist, LAMBDA ev : ev.e = e)

\* The names of the services start has been called on, in call order.
Started == [i \in 1..Len(EventsOfKind("start")) |-> EventsOfKind("start")[i].name]

\* The names of the loaded Services, in load order.
ServicesLoaded ==
    LET services == SelectSeq(libraries,
                              LAMBDA lib : lib.summary.library_type = "Service")
    IN  [i \in 1..Len(services) |-> RTLibraryName(services[i])]

\* start_services has returned.
ServicesStarted == main \in {"running", "serving"}

(***************************************************************************)
(* C21  Services are started in reverse load order: for a config that      *)
(* loads p1, ..., pn in that order, start_services calls start on the      *)
(* Services among them in the order pn, ..., p1.                           *)
(* The statement as claimed; the runtime started from the config           *)
(* blackboard, webinterface starts the blackboard first.                   *)
(***************************************************************************)
C21_StartedInReverseLoadOrder ==
    /\ IsPrefix(Started, Reverse(ServicesLoaded))
    /\ ServicesStarted => Started = Reverse(ServicesLoaded)

(***************************************************************************)
(* C21, amended: Services are started in load order.  While               *)
(* start_services runs, the Services started so far are the first of the   *)
(* loaded Services in load order, and when it has returned they are all    *)
(* of them: p1 is started first and pn last.                               *)
(***************************************************************************)
C21_StartedInLoadOrder ==
    /\ IsPrefix(Started, ServicesLoaded)
    /\ ServicesStarted => Started = ServicesLoaded

\* start_services has returned after starting several services.
C21_Witness ==
    /\ ServicesStarted
    /\ Len(Started) >= 2
    /\ Started[1] # Started[Len(Started)]

\* The names of the loaded plugins.
LoadedNames == {ComponentName(inner[k]) : k \in 1..Len(inner)}

\* The loaded plugin of that name.
Plugin(name) == inner[CHOOSE k \in 1..Len(inner) : ComponentName(inner[k]) = name]

\* The i-th entry of the history is a call of create_caps.
IsWiring(i) == lhist[i].e = "create_caps"

\* Some plugin named in the list is loaded and declares an entry that its
\* image does not export.
HasUnresolvedEntry(requires) ==
    \E r \in Range(requires) :
        /\ r \in LoadedNames
        /\ \E p \in Range(Plugin(r).library.summary.provides.list) :
              p.entry \notin Disk[Plugin(r).library.library].symbols

(***************************************************************************)
(* C22  A missing required plugin is fatal: a call of create_caps whose    *)
(* requires list names a plugin that is not among the loaded plugins       *)
(* panics, it does not return a capability table.                          *)
(* The statement as claimed; the code logs the name and goes on.           *)
(***************************************************************************)
C22_MissingPluginIsFatal ==
    \A i \in 1..Len(lhist) :
        (IsWiring(i) /\ \E r \in Range(lhist[i].requires) : r \notin LoadedNames)
            => lhist[i].out = "panicked"

(***************************************************************************)
(* C23  A missing entry symbol is fatal: a call of create_caps that meets  *)
(* a provides entry of a required plugin whose symbol the plugin's image   *)
(* does not export panics, the panic is what follows it, and no table      *)
(* wired from such a plugin is handed to a start or run function.          *)
(***************************************************************************)
C23_MissingEntryIsFatal ==
    /\ \A i \in 1..Len(lhist) :
          (IsWiring(i) /\ HasUnresolvedEntry(lhist[i].requires))
              => /\ lhist[i].out = "panicked"
                 /\ lhist[i].caps = << >>
                 /\ i < Len(lhist)
                 /\ lhist[i + 1].e = "panic"
    /\ \A i \in 1..Len(lhist) :
          lhist[i].e \in {"start", "run"} => ~HasUnresolvedEntry(lhist[i].requires)

\* start_services has started a service and then panicked wiring the next
\* one, which requires a plugin with an entry that does not resolve.
C23_Witness ==
    /\ main = "panicked"
    /\ Len(Started) >= 1
    /\ \E i \in 1..Len(lhist) :
          /\ IsWiring(i)
          /\ lhist[i].by = "start_services"
          /\ HasUnresolvedEntry(lhist[i].requires)
          /\ lhist[i].out = "panicked"

\* The capabilities the provides list of a plugin declares, with the
\* addresses of its entries.
Declared(name) ==
    LET lib == Plugin(name).library
        provides == lib.summary.provides.list
    IN  [i \in 1..Len(provides) |->
            [name |-> provides[i].capability,
             function |-> SymbolAddress(lib.library, provides[i].entry)]]

\* The declared capabilities of the loaded plugins of a requires list, one
\* plugin after the other.
RECURSIVE DeclaredBy(_)
DeclaredBy(requires) ==
    IF requires = << >> THEN << >>
    ELSE (IF Head(requires) \in LoadedNames THEN Declared(Head(requires)) ELSE << >>)
         \o DeclaredBy(Tail(requires))

(***************************************************************************)
(* C24  create_caps(requires, plugins) returns a table that holds, for     *)
(* each name R of requires in order and each {capability, entry} of the    *)
(* provides list of the plugin named R in declared order, one Capability   *)
(* named capability with the pointer resolved for entry in R's image, and  *)
(* nothing else; its length is the total number of those entries.          *)
(* The statement as claimed; a table holds 20 capabilities at most.        *)
(***************************************************************************)
C24_TableHoldsEveryProvidedEntry ==
    \A i \in 1..Len(lhist) :
        (IsWiring(i) /\ lhist[i].out = "returned")
            => /\ lhist[i].caps = DeclaredBy(lhist[i].requires)
               /\ Len(lhist[i].caps) = Len(DeclaredBy(lhist[i].requires))

(***************************************************************************)
(* C25  With the blackboard and the webinterface configured, the table     *)
(* wired for requires = ["blackboard"] has size 16, the number of entries  *)
(* of the provides list of the blackboard's descriptor, and holds          *)
(* blackboard_set_string.                                                  *)
(* The statement as claimed; the descriptor declares 17 entries.           *)
(***************************************************************************)
C25_BlackboardTableHasSixteen ==
    \A i \in 1..Len(lhist) :
        (/\ IsWiring(i)
         /\ lhist[i].requires = <<"blackboard">>
         /\ {"blackboard", "webinterface"} \subseteq LoadedNames)
            => /\ lhist[i].out = "returned"
               /\ Len(lhist[i].caps) = 16
               /\ Len(lhist[i].caps) = Len(BlackboardSummary.provides.list)
               /\ CapabilitiesGet(lhist[i].caps, "blackboard_set_string").found

\* How often the function f (start, run, stop) of the plugin of that name
\* has been called.
Calls(f, name) ==
    Cardinality({i \in 1..Len(lhist) : lhist[i].e = f /\ lhist[i].name = name})

\* The loaded plugins of a type.
LoadedOfType(type) ==
    {ComponentName(inner[k]) : k \in {j \in 1..Len(inner) : inner[j].type = type}}

(***************************************************************************)
(* C26  start_services calls start exactly once on every Service even      *)
(* when the start of an earlier Service returned a nonzero value: the      *)
(* nonzero return is logged, it does not abort the process, and the        *)
(* remaining Services are still started.                                   *)
(* The statement as claimed; the code drops the value start returns        *)
(* without logging it.                                                     *)
(***************************************************************************)
C26_NonzeroStartIsLoggedNotFatal ==
    /\ \A i \in 1..Len(lhist) :
          (lhist[i].e = "start" /\ lhist[i].ret # 0)
              => /\ \E j \in (i + 1)..Len(lhist) :
                       /\ lhist[j].e \in {"warn", "error"}
                       /\ lhist[j].by = "start_services"
                       /\ lhist[j].name = lhist[i].name
                 /\ (i < Len(lhist) => lhist[i + 1].e # "panic")
    /\ \A name \in LoadedOfType("Service") : Calls("start", name) <= 1
    /\ ServicesStarted =>
          \A name \in LoadedOfType("Service") : Calls("start", name) = 1

\* The component list has been dropped.
Dropped == main \in {"down", "panicked"}

(***************************************************************************)
(* C27  At shutdown, the drop of the component list, stop is called        *)
(* exactly once on every Service that was started (and exports one), and   *)
(* on none before; start_services calls neither start nor run on a Skill:  *)
(* nothing but an explicit run call reaches a Skill.                       *)
(***************************************************************************)
C27_StartedServicesStoppedOnce ==
    /\ \A name \in LoadedOfType("Service") :
          /\ Calls("stop", name) <= 1
          /\ ~Dropped => Calls("stop", name) = 0
          /\ (/\ Dropped
              /\ Calls("start", name) >= 1
              /\ "stop" \in Disk[Plugin(name).library.library].symbols)
                => Calls("stop", name) = 1
    /\ \A i \in 1..Len(lhist) :
          /\ lhist[i].e \in {"start", "run", "stop"} => lhist[i].name \in LoadedNames
          /\ (lhist[i].e \in {"start", "run", "stop"}
                /\ lhist[i].name \in LoadedOfType("Skill"))
                => (lhist[i].e = "run" /\ lhist[i].by = "run")
          /\ lhist[i].by = "start_services" => lhist[i].e # "run"

\* The runtime has shut down after starting two services and after a run
\* call on a skill; both services have been stopped.
C27_Witness ==
    /\ main = "down"
    /\ Len(Started) >= 2
    /\ \A i \in 1..Len(Started) : Calls("stop", Started[i]) = 1
    /\ \E name \in LoadedOfType("Skill") : Calls("run", name) = 1

\* The file a config entry names.
PathOf(libconfig) ==
    IF libconfig.path # NoPath THEN libconfig.path
    ELSE Join(plugin_dir, create_library_name(libconfig.name))

\* The i-th entry of the config names a shared object that loads and whose
\* summary is there and parses.
Loads(i) ==
    /\ PathOf(config[i]) \in DOMAIN Disk
    /\ Disk[PathOf(config[i])].loadable
    /\ Disk[PathOf(config[i])].summary = "ok"

DescriptorOf(i) == Disk[PathOf(config[i])].descriptor

\* The entries that load and whose descriptor name no earlier entry that
\* loads carries.
FirstOfName ==
    {i \in 1..Len(config) :
        /\ Loads(i)
        /\ \A j \in 1..(i - 1) : Loads(j) => DescriptorOf(j).name # DescriptorOf(i).name}

\* The k-th of a set of numbers, in increasing order.
Nth(set, k) == CHOOSE i \in set : Cardinality({j \in set : j <= i}) = k

(***************************************************************************)
(* C28  load_libraries returns, in config order, one library per distinct  *)
(* descriptor name: an entry whose shared object does not load, or whose   *)
(* summary is missing or unparsable, is skipped and the scan goes on, and  *)
(* of several entries whose descriptors carry the same name the first      *)
(* that loads is kept.                                                     *)
(***************************************************************************)
C28_LoadsFirstOfEachName ==
    main # "launched" =>
        LET first == FirstOfName
        IN  /\ Len(libraries) = Cardinality(first)
            /\ \A k \in 1..Len(libraries) :
                  /\ libraries[k].library = PathOf(config[Nth(first, k)])
                  /\ libraries[k].summary = DescriptorOf(Nth(first, k))
            /\ \A k, l \in 1..Len(libraries) :
                  RTLibraryName(libraries[k]) = RTLibraryName(libraries[l]) => k = l

\* A config has been loaded in which an entry that fails comes before one
\* that is kept, and two files carry the same descriptor name.
C28_Witness ==
    /\ main # "launched"
    /\ \E i, j \in 1..Len(config) :
          i < j /\ ~Loads(i) /\ j \in FirstOfName
    /\ \E i, j \in 1..Len(config) :
          /\ i < j /\ Loads(i) /\ Loads(j)
          /\ PathOf(config[i]) # PathOf(config[j])
          /\ DescriptorOf(i).name = DescriptorOf(j).name

(***************************************************************************)
(* C29  Capabilities::add appends the capability at index count and        *)
(* increments count when count < 20; when count = 20 the capability is     *)
(* discarded and the table is left as it was; so 0 <= count <= 20 after    *)
(* any sequence of adds, and no entry of the table is ever overwritten.    *)
(***************************************************************************)
C29_AddAppendsOrDiscards ==
    [][probe'.op = "add" =>
          LET cap == CapabilityNew(probe'.name, probe'.function)
              count == Len(table)
          IN  /\ count < 20 => /\ Len(table') = count + 1
                               /\ table'[count + 1] = cap
              /\ count = 20 => table' = table
              /\ Len(table') \in 0..20
              /\ \A i \in 1..count : table'[i] = table[i]]_vars

\* A capability has been added to a full table.
C29_Witness ==
    /\ probe.op = "add"
    /\ Len(probe.before) = 20
    /\ probe.name \in CapNames
    /\ table = probe.before

\* The add calls under a name that the table had room for.
AddedAs(name) ==
    {i \in 1..Len(probe.added) :
        probe.added[i].kept /\ probe.added[i].name = name}

(***************************************************************************)
(* C30  Capabilities::get(name) returns the capability that was added      *)
(* under exactly that name, with the function pointer it was added with,   *)
(* and none when no capability was added under that name;                  *)
(* Capability::new(name, f).name() is name for every name of at most 64    *)
(* bytes, and get() on it yields f.                                        *)
(* The statement as claimed; a name of 64 bytes loses its last byte.       *)
(***************************************************************************)
C30_GetByNameAndNameRoundTrip ==
    /\ probe.op = "get" =>
          IF AddedAs(probe.name) = {}
          THEN ~probe.found
          ELSE /\ probe.found
               /\ \E i \in AddedAs(probe.name) : probe.got = probe.added[i].function
    /\ (probe.op = "new" /\ Len(probe.name) <= 64) =>
          /\ probe.named = probe.name
          /\ probe.found
          /\ probe.got = probe.function

\* The successful sets of the key "start_project".
StartProjectSets ==
    {i \in 1..Len(lhist) :
        lhist[i].e = "set" /\ lhist[i].name = "start_project" /\ lhist[i].ret = 0}

(***************************************************************************)
(* C31  At startup the runtime registers exactly one subscription of its   *)
(* own, on the key "start_project", and every successful set of that key   *)
(* reaches it: the set calls the runtime's callback, which forwards the    *)
(* key to the task that reads the value and spawns a handler.              *)
(* The statement as claimed; main and its task register no subscription,   *)
(* so once the task serves there is none and a set of the key by the       *)
(* webinterface is observed by nobody.                                     *)
(***************************************************************************)
C31_RuntimeDispatchesStartProject ==
    /\ main = "serving" =>
          /\ Cardinality(RuntimeSubscriptions(lhist)) = 1
          /\ \A i \in RuntimeSubscriptions(lhist) : lhist[i].name = "start_project"
    /\ \A i \in StartProjectSets : lhist[i].out = "notified"

\* A Service whose start function could not be resolved has been logged by
\* start_services.
UnresolvedStart(i) ==
    lhist[i].e = "warn" /\ lhist[i].by = "start_services"

\* The image of the plugin of that name exports the function.
Exports(name, function) ==
    function \in Disk[Plugin(name).library.library].symbols

(***************************************************************************)
(* C32  A Service whose start symbol cannot be resolved is logged and      *)
(* start_services goes on: it does not panic, it returns, and when it has  *)
(* returned every Service that exports start has been started once.        *)
(* The statement as claimed; the code unwraps the Err it has just logged.  *)
(***************************************************************************)
C32_UnresolvedStartIsNotFatal ==
    /\ \A i \in 1..Len(lhist) :
          UnresolvedStart(i) => (i < Len(lhist) => lhist[i + 1].e # "panic")
    /\ \A i \in 1..Len(lhist) :
          lhist[i].e = "panic" => lhist[i].by # "start_services"
    /\ ServicesStarted =>
          \A name \in LoadedOfType("Service") :
              /\ Exports(name, "start") => Calls("start", name) = 1
              /\ ~Exports(name, "start") =>
                    \E i \in 1..Len(lhist) :
                        UnresolvedStart(i) /\ lhist[i].name = name

\* No other pair of the scenario shares the listener name of the pair.
Unambiguous(key, component) ==
    \A p \in ScPairs(scenario) :
        ListenerKey(p[1], p[2]) = ListenerKey(key, component)
            => p = <<key, component>>

\* How often a listener of that name has been registered since the start
\* of the store.
Registrations(bb, name) ==
    Cardinality({i \in 1..Len(bb.listener) :
                    CapabilityName(bb.listener[i]) = name})

\* The live subscription x is a second or later registration of its pair:
\* the pair was subscribed, unsubscribed and subscribed again.
Resubscribed(bb, x) ==
    /\ Unambiguous(x.key, x.comp)
    /\ Registrations(bb, ListenerKey(x.key, x.comp)) >= 2

(***************************************************************************)
(* C33  After subscribe(k, c, cb1, ud1), unsubscribe(k, c) and             *)
(* subscribe(k, c, cb2, ud2), each successful set on k makes exactly one   *)
(* call for (k, c), and that call invokes cb2 with ud2, never cb1.         *)
(* The statement as claimed; unsubscribe leaves the capability of cb1 in   *)
(* the listener table and the lookup by name finds it first.               *)
(***************************************************************************)
C33_ResubscribeReplacesCallback ==
    (last.op = "set" /\ Succeeded(last))
        => \A i \in 1..Len(subs) :
              (subs[i].key = last.key /\ Resubscribed(singleton, subs[i]))
                  => /\ InvokedOnce(last.calls, subs[i])
                     /\ NotifiedWith(last.calls, subs[i], last.key)

\* The lookup notify makes for the live subscription x finds a capability.
Resolves(bb, x) ==
    CapabilitiesGet(bb.listener, ListenerKey(x.key, x.comp)).found

(***************************************************************************)
(* C34  On a running store, however many subscriptions have been made      *)
(* since the start and however long key and component are, every live      *)
(* subscriber resolves to a capability of the listener table; no set       *)
(* panics inside notify and the lock of the store is never poisoned.       *)
(* The statement as claimed; a listener name of 64 bytes or more is stored *)
(* cut to 63 bytes and a listener added to a full table is discarded, so   *)
(* the lookup by the full name fails and notify unwraps None.              *)
(***************************************************************************)
C34_SubscribersResolveAndSetNeverPanics ==
    /\ Running => \A i \in 1..Len(subs) : Resolves(singleton, subs[i])
    /\ last.op = "set" => last.status = "returned"
    /\ ~poisoned

\* The live subscriptions of other pairs that share the listener name of
\* the pair (key, component).
Namesakes(h, key, component) ==
    {i \in 1..Len(h) :
        /\ <<h[i].key, h[i].comp>> # <<key, component>>
        /\ ListenerKey(h[i].key, h[i].comp) = ListenerKey(key, component)}

(***************************************************************************)
(* C35  Subscribers with different (key, component) pairs whose            *)
(* key_component texts are equal are independent: a successful set on the  *)
(* key of one makes exactly one call for it, to its own callback with its  *)
(* own user_data, and after an unsubscribe of one pair a set on the key of *)
(* the other still does so.                                                *)
(* The statement as claimed; both pairs map to one listener name, under    *)
(* which the table is searched and the user_data stored.                   *)
(***************************************************************************)
C35_NamesakesAreIndependent ==
    [][/\ (last'.op = "set" /\ Succeeded(last'))
            => \A i \in 1..Len(subs') :
                  (/\ subs'[i].key = last'.key
                   /\ Namesakes(subs', subs'[i].key, subs'[i].comp) # {})
                      => /\ InvokedOnce(last'.calls, subs'[i])
                         /\ NotifiedWith(last'.calls, subs'[i], last'.key)
       /\ (last'.op = "unsubscribe" /\ Succeeded(last') /\ Running)
            => \A i \in Namesakes(subs', last'.key, last'.comp) :
                  /\ subs'[i] \in Range(subs)
                  /\ LET calls == CallsOnSet(singleton', subs'[i].key)
                     IN  /\ InvokedOnce(calls, subs'[i])
                         /\ NotifiedWith(calls, subs'[i], subs'[i].key)]_vars

\* The positions of the history where the call of a thread that made the
\* event at position i returns: the next event of that thread.
ReturnOf(i) ==
    {j \in EventsOf("returned") :
        /\ i < j
        /\ events[j].t = events[i].t
        /\ \A m \in (i + 1)..(j - 1) : events[m].t # events[i].t}

\* The call a thread is making a callback in: its last called event.
CurrentCall(t) ==
    CHOOSE m \in EventsOf("called") :
        /\ events[m].t = t
        /\ \A n \in EventsOf("called") : events[n].t = t => n <= m

(***************************************************************************)
(* C36  Once unsubscribe(k, c) has returned on one thread, no callback for *)
(* (k, c) is started afterwards and none is running on another thread,     *)
(* whatever sets race with it; once stop has returned the same holds of    *)
(* every callback.                                                         *)
(***************************************************************************)
C36_NoCallbackOnceUnsubscribeReturned ==
    /\ \A i \in EventsOf("unsubscribed") : \A j \in ReturnOf(i) :
          /\ \A m \in EventsOf("called") :
                m > j => events[m].listener # events[i].listener
          /\ \A t \in Threads \ {events[i].t} :
                InCallback(t)
                    => events[CurrentCall(t)].listener # events[i].listener
    /\ \A i \in EventsOf("stopped") : \A j \in ReturnOf(i) :
          /\ \A m \in EventsOf("called") : m < j
          /\ \A t \in Threads \ {events[i].t} : ~InCallback(t)

\* C36 witness: t2 began a set before the unsubscribe of ("a", "c") by t1
\* returned, after a callback for ("a", "c") had been called, and is in the
\* callback of the other subscriber of the key.
C36_Witness ==
    /\ pc["t2"] = "callback"
    /\ \E i \in EventsOf("unsubscribed") : \E j \in ReturnOf(i) :
          /\ events[i].t = "t1"
          /\ events[i].listener = ListenerKey("a", ThreadComponent)
          /\ \E b \in EventsOf("begun") :
                /\ b < j /\ events[b].t = "t2" /\ events[b].op = "set"
                /\ CurrentCall("t2") > j
                /\ \A n \in (b + 1)..CurrentCall("t2") :
                      events[n].t = "t2" => events[n].e # "begun"
          /\ \E m \in EventsOf("called") :
                m < i /\ events[m].listener = events[i].listener

\* The live subscription of the pair (key, component).
Registration(h, key, component) ==
    h[CHOOSE i \in 1..Len(h) : h[i].key = key /\ h[i].comp = component]

(***************************************************************************)
(* C37  A subscribe(k, c, cb2, ud2) issued while (k, c) is registered with *)
(* (cb1, ud1), cb2 other than cb1, returns 0 and keeps the first           *)
(* registration: the subscribers and their order are as before, and a set  *)
(* on k afterwards makes one call for (k, c), to cb1 with ud1 and not to   *)
(* cb2 or with ud2, at the place in the order of calls it had before.      *)
(* The statement as claimed; the duplicate subscribe itself changes        *)
(* nothing, but the call a set makes for (k, c) is the one of the first    *)
(* capability of that listener name, which need not be cb1 (C33, C35).     *)
(***************************************************************************)
C37_DuplicateSubscribeKeepsFirst ==
    [][(/\ last'.op = "subscribe" /\ last'.cb # NULL /\ Running
        /\ IsSubscribed(subs, last'.key, last'.comp)
        /\ Registration(subs, last'.key, last'.comp).cb # last'.cb)
       => LET x == Registration(subs, last'.key, last'.comp)
              before == CallsOnSet(singleton, last'.key)
              after == CallsOnSet(singleton', last'.key)
          IN  /\ Succeeded(last')
              /\ subs' = subs
              /\ after = before
              /\ InvokedOnce(after, x)
              /\ NotifiedWith(after, x, last'.key)
              /\ \A j \in 1..Len(after) :
                    after[j].listener = ListenerKey(x.key, x.comp)
                        => after[j].function # last'.cb]_vars

\* The set was given a null key or, as a set_string, a null value.
NullSet(l) == l.op = "set" /\ (l.key = NullStr \/ l.null_value)

(***************************************************************************)
(* C38, as claimed: a set given a null key or a null value returns a       *)
(* negative value, leaves the entries and the subscribers as they were and *)
(* invokes no callback; a get_K given a null key or a null output location *)
(* returns a negative value and leaves the store as it was.                *)
(* The statement as claimed; get_string with a null output location is the *)
(* sizing call and returns the length of the stored string plus one.       *)
(***************************************************************************)
C38_NullInputRejected ==
    [][/\ NullSet(last')
            => /\ Failed(last')
               /\ singleton' = singleton /\ poisoned' = poisoned
               /\ subs' = subs
               /\ last'.calls = << >>
       /\ (last'.op = "get"
           /\ (last'.key = NullStr \/ last'.out0 = NullOut))
            => /\ Failed(last')
               /\ singleton' = singleton /\ poisoned' = poisoned
               /\ last'.out = last'.out0]_vars

(***************************************************************************)
(* C38, amended: a set given a null key or a null value returns a negative *)
(* value, leaves the entries and the subscribers as they were and invokes  *)
(* no callback; a get_K given a null key, and a get of an integer, float,  *)
(* double or boolean given a null output location, returns a negative      *)
(* value and leaves the store as it was; get_string given a null output    *)
(* location leaves the store as it was.                                    *)
(***************************************************************************)
C38_NullInputRejectedButSizing ==
    [][/\ NullSet(last')
            => /\ Failed(last')
               /\ singleton' = singleton /\ poisoned' = poisoned
               /\ subs' = subs
               /\ last'.calls = << >>
       /\ (last'.op = "get"
           /\ (\/ last'.key = NullStr
               \/ (last'.out0 = NullOut /\ last'.kind # "String")))
            => /\ Failed(last')
               /\ singleton' = singleton /\ poisoned' = poisoned
               /\ last'.out = last'.out0
       /\ (last'.op = "get" /\ last'.out0 = NullOut)
            => /\ singleton' = singleton /\ poisoned' = poisoned
               /\ last'.out = last'.out0]_vars

\* C38 witness: a set_string with a null value was rejected by a running
\* store that holds an entry under the key and has a subscriber on it.
C38_Witness ==
    /\ NullSet(last) /\ last.key = "a" /\ last.null_value
    /\ Running
    /\ "a" \in DOMAIN singleton.data
    /\ SubsOn(subs, "a") # << >>

\* The names of the Services stop has been called on, in call order.
Stopped == [i \in 1..Len(EventsOfKind("stop")) |-> EventsOfKind("stop")[i].name]

(***************************************************************************)
(* C39  When the component list is dropped, the Services that were started *)
(* are stopped in the reverse of the order in which start_services started *)
(* them: a Service is stopped before the Services started ahead of it.     *)
(* (stop reaches the Services whose image exports it.)                     *)
(***************************************************************************)
C39_StoppedInReverseStartOrder ==
    Dropped
        => SelectSeq(Stopped, LAMBDA name : name \in Range(Started))
             = Reverse(SelectSeq(Started, LAMBDA name : Exports(name, "stop")))

\* C39 witness: the runtime has gone down after it started the blackboard
\* and then the webinterface, which requires it, and stopped both.
C39_Witness ==
    /\ main = "down"
    /\ Started = <<"blackboard", "webinterface">>
    /\ Stopped = <<"webinterface", "blackboard">>

\* A server runs: the state is Some and the task of the server serves.
Serving(state) == state.some /\ state.task = "serving"

(***************************************************************************)
(* C40  The webinterface has a two-state lifecycle.  start_server on a     *)
(* running server fails and leaves it running; stop returns -1 when no     *)
(* server is running and 0 when it stops a running server, and leaves no   *)
(* server running either way; a start_server that follows a stop succeeds  *)
(* when the machine grants a runtime and the address; and a start that     *)
(* fails with no server running leaves none running.                       *)
(***************************************************************************)
C40_TwoStateLifecycle ==
    [][wlast' # wlast
       => /\ (wlast'.op = "start_server" /\ SERVER_STATE.some)
                => wlast'.ret < 0 /\ SERVER_STATE' = SERVER_STATE
          /\ (wlast'.op = "stop" /\ ~Serving(SERVER_STATE))
                => wlast'.ret = -1 /\ ~SERVER_STATE'.some
          /\ (wlast'.op = "stop" /\ Serving(SERVER_STATE))
                => wlast'.ret = 0 /\ ~SERVER_STATE'.some
          /\ (wlast'.op = "start_server" /\ wlast'.prev = "stop"
              /\ wlast'.machine = "ok")
                => wlast'.ret = 0 /\ Serving(SERVER_STATE')
          /\ (/\ wlast'.op \in {"start_server", "start"}
              /\ wlast'.status = "returned" /\ wlast'.ret < 0
              /\ ~SERVER_STATE.some)
                => ~SERVER_STATE'.some]_vars

\* C40 witness: a start_server on a running server has failed and left the
\* server it found, started with attributes, running.
C40_Witness ==
    /\ wlast.op = "start_server" /\ wlast.ret < 0
    /\ wlast.machine = "ok"
    /\ Serving(wlast.was) /\ wlast.was.port = 9090
    /\ SERVER_STATE = wlast.was

====
